---------------------------- MODULE Spec2Model ----------------------------
(***************************************************************************)
(* Verification model of the orchestration core of synergos_rest:          *)
(*   - the prediction job with its feature-drift guard                     *)
(*       (rest_rpc/evaluation/predictions.py)                              *)
(*   - the dual-mode (cluster / standalone) triggers                       *)
(*       (alignments.py, validations.py, predictions.py)                   *)
(*   - the asynchronous statistics poller  (evaluation/core/utils.py)      *)
(*   - the MLFlow logging bridge           (evaluation/core/utils.py)      *)
(*   - the hyperparameter-trial completion barrier (tune_driver_script.py) *)
(* Each component has its own specification over the shared variables; the *)
(* variables of the other components stay at their initial values.         *)
(***************************************************************************)
EXTENDS Integers, Sequences, FiniteSets, TLC

(***************************************************************************)
(* Bounds of the model                                                     *)
(***************************************************************************)
\* number of participants registered to the project
NumParticipants == 3

\* most combinations one request enumerates
MaxCombos == 2

\* worker ids the grid and the inference references draw from
NumWorkers == 2

\* most entries a grid holds
MaxGrid == 3

\* most calls of MLFlogger.log in one behaviour
MaxLogs == 2

\* direct calls of the MLFlogger initialisers in one behaviour
MaxCalls == 4

\* optimisation requests answered in one behaviour
MaxRequests == 2

\* calls of archive_validation_outputs in one behaviour
MaxArchives == 2

\* alignment triggers posted in one behaviour
MaxAligns == 1

\* largest core budget (CORES_USED) and largest trial count of a tuning request
MaxCores == 3
MaxTrials == 3

None == "None"

Participants == 1..NumParticipants

\* Spacer indexes of one participant: an ordered list of feature indexes.
\* Two lists that differ by one index are enough to tell drift from no drift.
SpacerVals == { <<0, 1>>, <<0, 2>> }

\* Prediction tags a participant may declare (lists of dataset tags).
OldTags == << <<"iid_1">> >>
TagVals == { << <<"non_iid_1">> >>, << <<"non_iid_1">>, <<"non_iid_2">> >> }

\* Inference statistics returned for the triggering participant.
PredStats == { "stats_a", "stats_b" }

VARIABLES
    \* ---- archive (record store) used by the prediction job ----
    tag_records,          \* participant -> declared predict tags
    alignment_records,    \* participant -> archived spacer indexes
    prediction_records,   \* participant -> archived prediction stats (one combination key)
    \* ---- execute_prediction_job: locals and position ----
    pj_pc,                \* "idle", "loop", "infer", "archive", "done", "aborted"
    pj_participant,       \* parameters['participants'][0]
    pj_auto_align,        \* parameters['auto_align']
    pj_spacers,           \* spacer_collection returned by execute_combination_alignment
    pj_remaining,         \* keys of spacer_collection not yet iterated
    pj_outputs,           \* completed_predictions
    \* ---- the archive as it was when the request arrived ----
    pre_tags, pre_alignments, pre_predictions,
    \* ---- the triggers (Alignments.post, Validations.post, Predictions.post) ----
    is_cluster,           \* app.config['IS_CLUSTER']
    has_mq,               \* the collaboration record declares 'mq'
    rq_handler,           \* resource whose post() is running
    rq_pc,                \* "idle", "connect", "publish", "run", "archive", "respond", "done"
    rq_combos,            \* keys of the enumerated combinations, in iteration order
    rq_i,                 \* index of the combination the loop is at
    producers,            \* queue producers constructed
    connection,           \* "none", "open", "closed"
    published,            \* messages handed to producer.process, in order
    executed,             \* jobs executed in this process, in order
    archived,             \* combination keys whose outputs were archived, in order
    response,             \* HTTP status returned, or None
    rq_results,           \* all_validations / all_predictions / retrieved_alignments
    \* ---- Analyser (statistics poller) ----
    an_metas,             \* self.metas
    an_inferences,        \* self.inferences: worker id -> inference references
    an_grid,              \* grid: sequence of node records (their worker ids)
    an_pairs,             \* mapped_pairs
    an_tasks,             \* per pair: "ready", "calling", "collected", "failed"
    an_calls,             \* network calls issued: pair index, destination, payload
    all_statistics,       \* aggregate being built
    an_pc,                \* "idle", "gather", "returned", "raised"
    \* ---- MLFlogger and the tracking service ----
    remote_uri,           \* self.remote_uri (None when no remote tracking server)
    tracking_uri,         \* mlflow's current tracking URI (mlflow.set_tracking_uri)
    mlf_records,          \* MLFRecords: "experiment"/"run" -> [mlflow_id, mlflow_uri]
    srv_expts,            \* tracking URI -> experiment ids that exist there
    srv_runs,             \* tracking URI -> run ids that exist there
    has_models,           \* ModelRecords holds metadata for the run
    lg_pc,                \* position of log(): "idle", "experiment", "run", "losses",
                          \*   "performance", "artifacts", "done", "raised"
    lg_uris,              \* tracking_uris still to be served, current one first
    lg_attempts,          \* <<uri, step>> begun by the current log()
    lg_logged,            \* <<uri, step>> completed by the current log()
    lg_calls,             \* calls of log() so far
    \* ---- hyperparameter trial (tune_proc / run_distributed_federated_cycle) ----
    registrations,        \* participants registered to the project, in read_all order
    validation_records,   \* participant -> validation statistics archived for the trial's key
    optim_runs,           \* Trial run records created
    optim_published,      \* 'optimize' messages handed to the producer
    tn_pc,                \* "idle", "polling", "reported", "rejected"
    tn_participants,      \* participants still to be collected
    grouped_statistics,   \* metric -> collected measurements, one list per participant
    tn_postponed,         \* some participant was found without a record and postponed
    tn_reports,           \* what tune.report was called with, in order
    \* ---- direct calls of MLFlogger.initialise_mlflow_experiment / _run ----
    mp_log,               \* the calls made so far: operation, URI, outcome, mappings before and after
    mp_created,           \* mlflow.create_experiment calls that succeeded
    mp_mapped,            \* mlf_records.create calls, per kind of mapping
    mp_started,           \* mlflow.start_run calls that started a new run
    \* ---- execute_optimization_job ----
    oj_pc,                \* "idle", "train", "validate", "finally", "returned", "raised"
    oj_keys,              \* keys of the combination to optimise
    oj_grid,              \* grids[grid_idx]: the participants of the selected grid
    oj_conns,             \* producer -> "none", "open", "closed"
    oj_published,         \* messages handed to the two producers, in order
    oj_failed,            \* the publication that raised, or "no"
    oj_trained,           \* the consumer has finished the training it was sent
    \* ---- Optimizations.get / Optimizations.post ----
    op_log,               \* answered requests: method and HTTP status, in order
    op_pc,                \* "idle", or "searching" while hypertuner.tune runs
    searches,              \* searches started (hypertuner.tune calls)
    \* ---- archive_validation_outputs and the validation table of the archive ----
    ar_table,             \* documents of the table: doc_id, participant, filters, details
    ar_log,                \* archive calls so far: filters, outputs, table before and after
    \* ---- alignment trigger (Alignments.post, standalone) ----
    expt_records,         \* experiment id -> declared << input size, output size >>
    al_log,                \* alignment calls made: their auto_align / auto_fix flags
    \* ---- RayTuneTuner.tune: resources of the trials ----
    cores_used,           \* app.config["CORES_USED"]
    rs_concurrency,       \* trial_concurrency of the request
    rs_max_trials,        \* max_trial_num of the request
    rs_pc,                \* "idle", "running", "done"
    rs_resources,         \* resources_per_trial handed to tune.run
    rs_running,           \* trials holding their resource claim now
    rs_launched,           \* trials started so far
    \* ---- fatal conditions ----
    surfaced,             \* what the caller received: abort payloads and raised errors
    err_logged,            \* what logging.error recorded for the same conditions
    \* ---- MLFlogger.log_losses: the loop over the archived models ----
    ll_models,            \* stripped_metadata: (m_type, origin, loss history) in iteration order
    ll_i,                 \* models iterated so far
    ll_losses,            \* the local variable `losses`
    ll_metrics,           \* mlflow.log_metric calls made: key, value, step
    ll_pc,                 \* "idle", "logging", "done"
    \* ---- record stores and their relations ----
    st_runs,              \* run records (their keys)
    st_models,            \* model records, keyed by run
    st_validations,       \* validation records, keyed by run
    st_predictions,       \* prediction records, keyed by run
    st_registrations,     \* registration records (project, participant)
    st_tags,              \* tag records, keyed by registration
    st_alignments,        \* alignment records, keyed by registration
    st_deleted,            \* the last delete: what was there before and after it
    \* ---- consumer of the evaluate queue ----
    oj_validated          \* the validate job of the cycle has been executed

predVars == << tag_records, alignment_records, prediction_records,
               pj_pc, pj_participant, pj_auto_align, pj_spacers, pj_remaining,
               pj_outputs, pre_tags, pre_alignments, pre_predictions >>

dispVars == << is_cluster, has_mq, rq_handler, rq_pc, rq_combos, rq_i, producers,
               connection, published, executed, archived, response, rq_results >>

anaVars == << an_metas, an_inferences, an_grid, an_pairs, an_tasks, an_calls,
              all_statistics, an_pc >>

mlfVars == << remote_uri, tracking_uri, mlf_records, srv_expts, srv_runs, has_models,
              lg_pc, lg_uris, lg_attempts, lg_logged, lg_calls >>

tuneVars == << registrations, validation_records, optim_runs, optim_published, tn_pc,
               tn_participants, grouped_statistics, tn_postponed, tn_reports >>

mapVars == << mp_log, mp_created, mp_mapped, mp_started >>

jobVars == << oj_pc, oj_keys, oj_grid, oj_conns, oj_published, oj_failed, oj_trained >>

optVars == << op_log, op_pc, searches >>

arcVars == << ar_table, ar_log >>

alnVars == << expt_records, al_log >>

resVars == << cores_used, rs_concurrency, rs_max_trials, rs_pc, rs_resources,
              rs_running, rs_launched >>

errVars == << surfaced, err_logged >>

lossVars == << ll_models, ll_i, ll_losses, ll_metrics, ll_pc >>

stVars == << st_runs, st_models, st_validations, st_predictions,
             st_registrations, st_tags, st_alignments, st_deleted >>

conVars == << oj_validated >>

vars == << predVars, dispVars, anaVars, mlfVars, tuneVars, mapVars, jobVars, optVars, arcVars, alnVars, resVars, errVars, lossVars, stVars, conVars >>

\* what each component leaves alone
notPred == << dispVars, anaVars, mlfVars, tuneVars, mapVars, jobVars, optVars, arcVars, alnVars, resVars, errVars, lossVars, stVars, conVars >>
notDisp == << predVars, anaVars, mlfVars, tuneVars, mapVars, jobVars, optVars, arcVars, alnVars, resVars, errVars, lossVars, stVars, conVars >>
notAna  == << predVars, dispVars, mlfVars, tuneVars, mapVars, jobVars, optVars, arcVars, alnVars, resVars, errVars, lossVars, stVars, conVars >>
notMlf  == << predVars, dispVars, anaVars, tuneVars, mapVars, jobVars, optVars, arcVars, alnVars, resVars, errVars, lossVars, stVars, conVars >>
notTune == << predVars, dispVars, anaVars, mlfVars, mapVars, jobVars, optVars, arcVars, alnVars, resVars, errVars, lossVars, stVars, conVars >>
notMap  == << predVars, dispVars, anaVars, tuneVars, jobVars, optVars, arcVars, alnVars, resVars, errVars, lossVars, stVars, conVars >>
notJob  == << predVars, dispVars, anaVars, mlfVars, tuneVars, mapVars, optVars, arcVars, alnVars, resVars, errVars, lossVars, stVars, conVars >>
notOpt  == << predVars, dispVars, anaVars, mlfVars, tuneVars, mapVars, jobVars, arcVars, alnVars, resVars, errVars, lossVars, stVars, conVars >>
notArc == << predVars, dispVars, anaVars, mlfVars, tuneVars, mapVars, jobVars, optVars, alnVars, resVars, errVars, lossVars, stVars, conVars >>
notAln == << dispVars, anaVars, mlfVars, tuneVars, mapVars, jobVars, optVars, arcVars, resVars, errVars, lossVars, stVars, conVars >>
notRes == << predVars, dispVars, anaVars, mlfVars, tuneVars, mapVars, jobVars, optVars, arcVars, alnVars, errVars, lossVars, stVars, conVars >>
notErr == << predVars, dispVars, anaVars, mlfVars, tuneVars, mapVars, jobVars, optVars, arcVars, alnVars, resVars, lossVars, stVars, conVars >>
notLoss == << predVars, dispVars, anaVars, mlfVars, tuneVars, mapVars, jobVars, optVars, arcVars, alnVars, resVars, errVars, stVars, conVars >>
notSt == << predVars, dispVars, anaVars, mlfVars, tuneVars, mapVars, jobVars, optVars, arcVars, alnVars, resVars, errVars, lossVars, conVars >>
notCon == << predVars, dispVars, anaVars, mlfVars, tuneVars, mapVars, jobVars, optVars, arcVars, alnVars, resVars, errVars, lossVars, stVars >>

(***************************************************************************)
(* Prediction job: execute_prediction_job / archive_prediction_outputs     *)
(***************************************************************************)

\* rpc_formatter.strip_keys(record, concise=True): the archived record
\* without its key/metadata fields, i.e. the spacer indexes themselves.
strip_keys(record) == record.details

\* alignment_records.read(collab_id, project_id, participant_id)
ReadAlignment(p) == [key |-> p, details |-> alignment_records[p]]

\* execute_combination_alignment(grid, experiments, auto_align, auto_fix=False):
\* with auto_align the spacer indexes of every participant of the grid are
\* recomputed from the headers the workers report now (fresh); without it the
\* alignment already stored with the grid is returned unchanged.
execute_combination_alignment(auto_align, fresh) ==
    IF auto_align THEN fresh ELSE alignment_records

\* predictions.py:241  retrieved_spacer_idxs != spacer_idxs
FeatureDrift(p) == strip_keys(ReadAlignment(p)) # pj_spacers[p]

\* mutant: the declarer's new spacer indexes are not written back
UpdateAlignment_Skipped(p) == alignment_records

\* predictions.py:266  alignment_records.update(..., participant_id=p_id, updates=spacer_idxs)
UpdateAlignment(p) == [alignment_records EXCEPT ![p] = pj_spacers[p]]

\* predictions.py:154  tag_records.update(..., updates={'predict': tags})
UpdateTags(p, tags) == [tag_records EXCEPT ![p] = tags]

\* the archive and the job before any prediction request
PredStores(alignments) ==
    /\ tag_records = [p \in Participants |-> OldTags]
    /\ alignment_records = alignments
    /\ prediction_records = [p \in Participants |-> None]
    /\ pj_pc = "idle"
    /\ pj_participant = None
    /\ pj_auto_align = FALSE
    /\ pj_spacers = alignment_records
    /\ pj_remaining = {}
    /\ pj_outputs = None
    /\ pre_tags = tag_records
    /\ pre_alignments = alignment_records
    /\ pre_predictions = prediction_records

\* predictions.py:148-200: the job starts, stores the newly declared predict
\* tags of the triggering participant, and runs the alignment.
PredictStart(t, tags, auto_align, fresh) ==
    /\ pj_pc = "idle"
    /\ pre_tags' = tag_records
    /\ pre_alignments' = alignment_records
    /\ pre_predictions' = prediction_records
    /\ pj_participant' = t
    /\ pj_auto_align' = auto_align
    /\ tag_records' = UpdateTags(t, tags)
    /\ pj_spacers' = execute_combination_alignment(auto_align, fresh)
    /\ pj_remaining' = DOMAIN fresh
    /\ pj_pc' = "loop"
    /\ UNCHANGED << alignment_records, prediction_records, pj_outputs >>
    /\ UNCHANGED notPred

\* predictions.py:202-271: one iteration of the loop over spacer_collection,
\* in whatever order the collection iterates.
DriftCheckStep(p) ==
    /\ pj_pc = "loop"
    /\ p \in pj_remaining
    /\ pj_remaining' = pj_remaining \ {p}
    /\ IF p # pj_participant
         THEN /\ pj_pc' = IF FeatureDrift(p) THEN "aborted"
                          ELSE IF pj_remaining' = {} THEN "infer" ELSE "loop"
              /\ UNCHANGED alignment_records
         ELSE /\ alignment_records' = UpdateAlignment(p)
              /\ pj_pc' = IF pj_remaining' = {} THEN "infer" ELSE "loop"
    /\ UNCHANGED << tag_records, prediction_records, pj_participant, pj_auto_align,
                    pj_spacers, pj_outputs, pre_tags, pre_alignments, pre_predictions >>
    /\ UNCHANGED notPred

\* predictions.py:273-306: inference over the re-read grid; the outputs hold
\* the statistics of the triggering participant.
PredictInfer(stats) ==
    /\ pj_pc = "infer"
    /\ pj_outputs' = [p \in {pj_participant} |-> stats]
    /\ pj_pc' = "archive"
    /\ UNCHANGED << tag_records, alignment_records, prediction_records, pj_participant,
                    pj_auto_align, pj_spacers, pj_remaining,
                    pre_tags, pre_alignments, pre_predictions >>
    /\ UNCHANGED notPred

\* predictions.py:309-331 archive_prediction_outputs
ArchivePrediction ==
    /\ pj_pc = "archive"
    /\ prediction_records' = [p \in Participants |->
           IF p \in DOMAIN pj_outputs THEN pj_outputs[p] ELSE prediction_records[p]]
    /\ pj_pc' = "done"
    /\ UNCHANGED << tag_records, alignment_records, pj_participant, pj_auto_align,
                    pj_spacers, pj_remaining, pj_outputs,
                    pre_tags, pre_alignments, pre_predictions >>
    /\ UNCHANGED notPred

PredNext ==
    \/ \E t \in Participants, tags \in TagVals, aa \in BOOLEAN,
          fresh \in [Participants -> SpacerVals] : PredictStart(t, tags, aa, fresh)
    \/ \E p \in Participants : DriftCheckStep(p)
    \/ \E s \in PredStats : PredictInfer(s)
    \/ ArchivePrediction


(***************************************************************************)
(* Alignment trigger: execute_alignment_job / archive_alignment_outputs    *)
(***************************************************************************)
ExptIds == {"expt_1", "expt_2"}

\* declared << input layer size, output layer size >> of an experiment's model
Layers == { <<2, 1>>, <<3, 1>> }

AlnStores ==
    /\ expt_records = [e \in ExptIds |-> <<2, 1>>]
    /\ al_log = << >>

\* execute_combination_alignment(...)[1]: the experiments whose input/output
\* layers were re-sized to the alignment; produced when auto_fix is enabled.
aligned_experiments(auto_fix, fixed) ==
    IF auto_fix THEN fixed ELSE << >>

\* alignments.py:159-160  for expt_updates in aligned_experiments: expt_records.update(**expt_updates)
UpdateExperiments(records, updates) ==
    [e \in DOMAIN records |-> IF e \in DOMAIN updates THEN updates[e] ELSE records[e]]

\* alignments.py:263-305 (standalone): Alignments.post forwards the request's
\* auto_align / auto_fix to execute_alignment_job and archives what it returns:
\* one alignment record per participant of the spacer collection, then every
\* returned experiment update.
AlignmentsPost(auto_align, auto_fix, fresh, fixed) ==
    /\ Len(al_log) < MaxAligns
    /\ alignment_records' = execute_combination_alignment(auto_align, fresh)
    /\ expt_records' = UpdateExperiments(expt_records,
                           aligned_experiments(auto_fix, fixed))
    /\ al_log' = Append(al_log, [auto_align |-> auto_align, auto_fix |-> auto_fix])
    /\ UNCHANGED << tag_records, prediction_records, pj_pc, pj_participant,
                    pj_auto_align, pj_spacers, pj_remaining, pj_outputs,
                    pre_tags, pre_alignments, pre_predictions >>
    /\ UNCHANGED notAln

AlnNext ==
    \/ \E aa \in BOOLEAN, af \in BOOLEAN, fresh \in [Participants -> SpacerVals],
          fixed \in [ExptIds -> Layers] : AlignmentsPost(aa, af, fresh, fixed)
    \/ \E t \in Participants, tags \in TagVals, aa \in BOOLEAN,
          fresh \in [Participants -> SpacerVals] : PredictStart(t, tags, aa, fresh)
    \/ \E p \in Participants : DriftCheckStep(p)
    \/ \E s \in PredStats : PredictInfer(s)
    \/ ArchivePrediction


(***************************************************************************)
(* RayTuneTuner.tune: resources claimed by the trials                      *)
(***************************************************************************)
NoResources == [cpu |-> [num |-> 0, den |-> 1], gpu |-> 0]

ResStores(cores, concurrency, trials) ==
    /\ cores_used = cores
    /\ rs_concurrency = concurrency
    /\ rs_max_trials = trials
    /\ rs_pc = "idle"
    /\ rs_resources = NoResources
    /\ rs_running = 0
    /\ rs_launched = 0

ResQuiet == ResStores(1, 1, 1)

\* tune_interface.py:159-196  the quotient cores_used/max_concurrent is kept
\* as the exact fraction num/den
_calculate_resources(max_concurrent) ==
    [cpu |-> [num |-> cores_used, den |-> max_concurrent], gpu |-> 0]

\* ray.init(num_cpus=cores_used, num_gpus=0): a trial is started only while
\* its claim fits into what the running trials leave of the node's CPUs
Fits(resources, running) ==
    (running + 1) * resources.cpu.num <= cores_used * resources.cpu.den

\* tune_interface.py:404-446: ray is initialised, the resources of a trial are
\* computed and tune.run is entered with them.
Tune ==
    /\ rs_pc = "idle"
    /\ rs_resources' = _calculate_resources(rs_max_trials)
    /\ rs_pc' = "running"
    /\ UNCHANGED << cores_used, rs_concurrency, rs_max_trials, rs_running, rs_launched >>
    /\ UNCHANGED notRes

\* tune.run: num_samples = max_trial_num trials, each started when it fits
TrialLaunched ==
    /\ rs_pc = "running"
    /\ rs_launched < rs_max_trials
    /\ Fits(rs_resources, rs_running)
    /\ rs_running' = rs_running + 1
    /\ rs_launched' = rs_launched + 1
    /\ UNCHANGED << cores_used, rs_concurrency, rs_max_trials, rs_pc, rs_resources >>
    /\ UNCHANGED notRes

TrialEnded ==
    /\ rs_pc = "running"
    /\ rs_running > 0
    /\ rs_running' = rs_running - 1
    /\ UNCHANGED << cores_used, rs_concurrency, rs_max_trials, rs_pc, rs_resources,
                    rs_launched >>
    /\ UNCHANGED notRes

\* tune_interface.py:448-453: all trials are over, ray is shut down
TuneReturns ==
    /\ rs_pc = "running"
    /\ rs_launched = rs_max_trials
    /\ rs_running = 0
    /\ rs_pc' = "done"
    /\ UNCHANGED << cores_used, rs_concurrency, rs_max_trials, rs_resources,
                    rs_running, rs_launched >>
    /\ UNCHANGED notRes

ResNext ==
    \/ Tune
    \/ TrialLaunched
    \/ TrialEnded
    \/ TuneReturns


(***************************************************************************)
(* Triggers: Alignments.post, Validations.post, Predictions.post           *)
(***************************************************************************)
Handlers == {"alignments", "validations", "predictions"}

\* process= argument of producer.process in each handler
ProcessOf(h) ==
    CASE h = "alignments"  -> "preprocess"
      [] h = "validations" -> "validate"
      [] h = "predictions" -> "predict"

\* status of the success payload of each handler
SuccessCode(h) == IF h = "alignments" THEN 201 ELSE 200

\* mutant: the mode test is inverted
UseQueue_Inverted == ~is_cluster

\* alignments.py:276, validations.py:377, predictions.py:529  `if is_cluster:`
UseQueue == is_cluster

DispStores(cluster, mq) ==
    /\ is_cluster = cluster
    /\ has_mq = mq
    /\ rq_handler = None
    /\ rq_pc = "idle"
    /\ rq_combos = << >>
    /\ rq_i = 1
    /\ producers = 0
    /\ connection = "none"
    /\ published = << >>
    /\ executed = << >>
    /\ archived = << >>
    /\ response = None
    /\ rq_results = << >>

\* mutant: the queue endpoint is taken for granted
QueueDeclared_Assumed == TRUE

\* alignments.py:279, validations.py:380, predictions.py:533
\* retrieved_collaboration['mq'] is there (KeyError otherwise)
QueueDeclared == has_mq

\* mutant: every message carries the same parameters
ParametersOf_Shared(key) == <<"kwargs", 0>>

\* the parameters the enumeration holds for a combination key
ParametersOf(key) == <<"kwargs", key>>

\* The request arrives, the combinations are enumerated and the mode is
\* chosen.  In cluster mode retrieved_collaboration['mq'] is read (KeyError
\* when the collaboration declares no queue, answered with 403) and the
\* producer is constructed.
\* alignments.py:260-285, validations.py:317-386, predictions.py:439-539
Post(h, n) ==
    /\ rq_pc = "idle"
    /\ rq_handler' = h
    /\ rq_combos' = [k \in 1..n |-> k]
    /\ rq_i' = 1
    /\ rq_results' = << >>
    /\ IF UseQueue
         THEN IF QueueDeclared
                THEN /\ producers' = producers + 1
                     /\ rq_pc' = "connect"
                     /\ UNCHANGED response
                ELSE /\ response' = 403
                     /\ rq_pc' = "done"
                     /\ UNCHANGED producers
         ELSE /\ rq_pc' = "run"
              /\ UNCHANGED << producers, response >>
    /\ UNCHANGED << is_cluster, has_mq, connection, published, executed, archived >>
    /\ UNCHANGED notDisp

\* producer.connect()   alignments.py:287, validations.py:388, predictions.py:541
Connect ==
    /\ rq_pc = "connect"
    /\ connection' = "open"
    /\ rq_pc' = "publish"
    /\ UNCHANGED << is_cluster, has_mq, rq_handler, rq_combos, rq_i, producers,
                    published, executed, archived, response >>
    /\ UNCHANGED rq_results
    /\ UNCHANGED notDisp

\* producer.process(process=..., keys=..., grids=..., parameters=...)
\* alignments.py:289-294, validations.py:390-396, predictions.py:543-549
Publish ==
    /\ rq_pc = "publish"
    /\ rq_i <= Len(rq_combos)
    /\ published' = Append(published,
                           [process |-> ProcessOf(rq_handler), keys |-> rq_combos[rq_i],
                            parameters |-> ParametersOf(rq_combos[rq_i])])
    /\ rq_i' = rq_i + 1
    /\ UNCHANGED << is_cluster, has_mq, rq_handler, rq_pc, rq_combos, producers,
                    connection, executed, archived, response >>
    /\ UNCHANGED rq_results
    /\ UNCHANGED notDisp

\* producer.disconnect()  alignments.py:296, validations.py:398, predictions.py:551
Disconnect ==
    /\ rq_pc = "publish"
    /\ rq_i > Len(rq_combos)
    /\ connection' = "closed"
    /\ rq_results' = << >>
    /\ rq_pc' = "respond"
    /\ UNCHANGED << is_cluster, has_mq, rq_handler, rq_combos, rq_i, producers,
                    published, executed, archived, response >>
    /\ UNCHANGED notDisp

\* mutant: the next job starts before the outputs of this one are archived
ExecuteJob_Unarchived ==
    /\ rq_pc = "run"
    /\ rq_i <= Len(rq_combos)
    /\ executed' = Append(executed,
                          [job |-> ProcessOf(rq_handler), keys |-> rq_combos[rq_i],
                           parameters |-> <<"kwargs", rq_combos[rq_i]>>])
    /\ rq_i' = rq_i + 1
    /\ UNCHANGED << is_cluster, has_mq, rq_handler, rq_pc, rq_combos, producers,
                    connection, published, archived, response, rq_results >>
    /\ UNCHANGED notDisp

\* execute_<phase>_job(keys, grids, parameters) in this process
\* alignments.py:302-306, validations.py:407-411, predictions.py:575-579
ExecuteJob ==
    /\ rq_pc = "run"
    /\ rq_i <= Len(rq_combos)
    /\ executed' = Append(executed,
                          [job |-> ProcessOf(rq_handler), keys |-> rq_combos[rq_i],
                           parameters |-> ParametersOf(rq_combos[rq_i])])
    /\ rq_pc' = "archive"
    /\ UNCHANGED << is_cluster, has_mq, rq_handler, rq_combos, rq_i, producers,
                    connection, published, archived, response >>
    /\ UNCHANGED rq_results
    /\ UNCHANGED notDisp

\* What the handler answers when exception exc escapes the dispatch.
\* Validations.post and Alignments.post wrap both modes in `except KeyError`
\* (validations.py:374-457, alignments.py:271-341), Predictions.post only the
\* cluster branch (predictions.py:531-568); Alignments.post also catches
\* RuntimeError (alignments.py:343-356); anything else is an internal failure.
Answer(h, exc) ==
    IF exc = "KeyError" /\ (h \in {"alignments", "validations"} \/ UseQueue) THEN 403
    ELSE IF exc = "RuntimeError" /\ h = "alignments" THEN 417
    ELSE 500

Exceptions == {"KeyError", "RuntimeError", "ConnectionError"}

\* the job function raises
JobFails(exc) ==
    /\ rq_pc = "run"
    /\ rq_i <= Len(rq_combos)
    /\ executed' = Append(executed,
                          [job |-> ProcessOf(rq_handler), keys |-> rq_combos[rq_i],
                           parameters |-> ParametersOf(rq_combos[rq_i])])
    /\ response' = Answer(rq_handler, exc)
    /\ rq_pc' = "done"
    /\ UNCHANGED << is_cluster, has_mq, rq_handler, rq_combos, rq_i, producers,
                    connection, published, archived >>
    /\ UNCHANGED rq_results
    /\ UNCHANGED notDisp

\* producer.connect() raises: no connection is open
ConnectFails ==
    /\ rq_pc = "connect"
    /\ response' = Answer(rq_handler, "ConnectionError")
    /\ rq_pc' = "done"
    /\ UNCHANGED << is_cluster, has_mq, rq_handler, rq_combos, rq_i, producers,
                    connection, published, executed, archived >>
    /\ UNCHANGED rq_results
    /\ UNCHANGED notDisp

\* producer.process() raises: the handler is left before producer.disconnect()
PublishFails ==
    /\ rq_pc = "publish"
    /\ rq_i <= Len(rq_combos)
    /\ response' = Answer(rq_handler, "ConnectionError")
    /\ rq_pc' = "done"
    /\ UNCHANGED << is_cluster, has_mq, rq_handler, rq_combos, rq_i, producers,
                    connection, published, executed, archived >>
    /\ UNCHANGED rq_results
    /\ UNCHANGED notDisp

\* archive_<phase>_outputs(**info)
\* alignments.py:307, validations.py:412, predictions.py:580
ArchiveOutputs ==
    /\ rq_pc = "archive"
    /\ archived' = Append(archived, rq_combos[rq_i])
    /\ rq_results' = Append(rq_results, rq_combos[rq_i])
    /\ rq_i' = rq_i + 1
    /\ rq_pc' = "run"
    /\ UNCHANGED << is_cluster, has_mq, rq_handler, rq_combos, producers,
                    connection, published, executed, response >>
    /\ UNCHANGED notDisp

\* the success payload is returned
\* alignments.py:309-326, validations.py:419-440, predictions.py:585-604
Respond ==
    /\ \/ rq_pc = "respond"
       \/ rq_pc = "run" /\ rq_i > Len(rq_combos)
    /\ response' = SuccessCode(rq_handler)
    /\ rq_pc' = "done"
    /\ UNCHANGED << is_cluster, has_mq, rq_handler, rq_combos, rq_i, producers,
                    connection, published, executed, archived >>
    /\ UNCHANGED rq_results
    /\ UNCHANGED notDisp

\* Alignments.post dispatches exactly one combination ([collab_id, project_id]);
\* the other two dispatch whatever the enumeration yields.
CombosOf(h) == IF h = "alignments" THEN {1} ELSE 0..MaxCombos

DispNext ==
    \/ \E h \in Handlers : \E n \in CombosOf(h) : Post(h, n)
    \/ Connect
    \/ Publish
    \/ Disconnect
    \/ ConnectFails
    \/ PublishFails
    \/ ExecuteJob
    \/ \E exc \in Exceptions : JobFails(exc)
    \/ ArchiveOutputs
    \/ Respond


(***************************************************************************)
(* Fatal conditions: what the caller is told                               *)
(***************************************************************************)
ErrKeys == { <<"collab_1", "project_1", "expt_1", "run_1">>,
             <<"collab_1", "project_1", "expt_1", "run_2">> }

ErrStores ==
    /\ surfaced = << >>
    /\ err_logged = << >>

\* a message: its fixed text and the identifiers formatted into it
Literal(text) == [text |-> text, ids |-> {}]

Formatted(text, key) == [text |-> text, ids |-> { key[i] : i \in DOMAIN key }]

\* validations.py:444-457, predictions.py, alignments.py:308-321: the KeyError
\* of retrieved_collaboration['mq'] is answered with ns_api.abort(403, message=...);
\* request.view_args goes to the log only.
AbortNoQueue(h, key) ==
    /\ Len(surfaced) < MaxRequests
    /\ err_logged' = Append(err_logged,
           Formatted("SynCluster mode attempted, but no queue was declared!", key))
    /\ surfaced' = Append(surfaced,
           [condition |-> "configuration", handler |-> h, key |-> key, code |-> 403,
            message |-> Literal("SynCluster mode attempted, but no queue was declared!")])
    /\ UNCHANGED notErr

\* predictions.py:241-254: the ids are formatted into the log line, the abort
\* message is a fixed text.
AbortFeatureDrift(key) ==
    /\ Len(surfaced) < MaxRequests
    /\ err_logged' = Append(err_logged, Formatted("Feature drift detected!", key))
    /\ surfaced' = Append(surfaced,
           [condition |-> "integrity", handler |-> "predictions", key |-> key, code |-> 403,
            message |-> Literal("Feature drift detected! Dataset characteristics are incompatible with current model.")])
    /\ UNCHANGED notErr

\* utils.py:493-500: initialise_mlflow_run without a parent experiment mapping
RaiseNotInitialised(key) ==
    /\ Len(surfaced) < MaxRequests
    /\ err_logged' = Append(err_logged, Literal("MLFlow experiment has not been initialised!"))
    /\ surfaced' = Append(surfaced,
           [condition |-> "ordering", handler |-> "mlflogger", key |-> key, code |-> 500,
            message |-> Literal("MLFlow experiment has not been initialised!")])
    /\ UNCHANGED notErr

ErrNext ==
    \/ \E h \in Handlers, key \in ErrKeys : AbortNoQueue(h, key)
    \/ \E key \in ErrKeys : AbortFeatureDrift(key)
    \/ \E key \in ErrKeys : RaiseNotInitialised(key)


(***************************************************************************)
(* Analyser: _poll_for_stats / _collect_all_stats / infer                  *)
(***************************************************************************)
Workers == 1..NumWorkers

AllMetas == {"train", "evaluate", "predict"}

\* sequences over S of length at most n
SeqUpTo(S, n) == UNION { [1..k -> S] : k \in 0..n }

\* partial maps from a subset of D to R
PartialMaps(D, R) == UNION { [d -> R] : d \in SUBSET D }

\* The inference references of worker w: none (the worker was unused in this
\* cycle) or the minibatch ids of w's own predictions.
RefsOf(w) == { << >>, << w >> }

\* self.parse_syft_info(record).get('id') / self.parse_keys(record): the node
\* record of a grid entry carries the id of its participant
EntryId(grid, i) == grid[i]

\* mutant: references and grid entries are zipped positionally
mapped_pairs_Zipped(grid, inferences) ==
    LET ids == DOMAIN inferences
        RECURSIVE Sorted(_)
        Sorted(S) == IF S = {} THEN << >>
                     ELSE LET m == CHOOSE x \in S : \A y \in S : x <= y
                          IN <<m>> \o Sorted(S \ {m})
        ws == Sorted(ids)
        n == IF Len(ws) < Len(grid) THEN Len(ws) ELSE Len(grid)
    IN [k \in 1..n |-> [entry |-> k, worker |-> ws[k], inferences |-> inferences[ws[k]]]]

\* utils.py:188-193  mapped_pairs: for every (worker_id, inferences) of
\* self.inferences, every grid record whose worker id equals worker_id
mapped_pairs(grid, inferences) ==
    LET RECURSIVE OfWorkers(_)
        OfWorkers(S) ==
            IF S = {} THEN << >>
            ELSE LET w == CHOOSE x \in S : \A y \in S : x <= y
                     RECURSIVE OfGrid(_)
                     OfGrid(i) ==
                         IF i > Len(grid) THEN << >>
                         ELSE (IF EntryId(grid, i) = w
                                 THEN << [entry |-> i, worker |-> w,
                                          inferences |-> inferences[w]] >>
                                 ELSE << >>) \o OfGrid(i + 1)
                 IN OfGrid(1) \o OfWorkers(S \ {w})
    IN OfWorkers(DOMAIN inferences)

\* mutant: the short-circuit answers with no phases at all
EmptyStatistics_NoPhases(metas) == << >>

\* utils.py:107-108  {meta: {} for meta in self.metas}
EmptyStatistics(metas) == [m \in metas |-> {}]

\* response of the worker behind grid entry i: statistics for each phase it holds
WorkerResponse(i) == [m \in AllMetas |-> [statistics |-> <<"stats_of_entry", i>>]]

\* utils.py:153-157  filter by selected meta-datasets
filtered_statistics(metadata, metas) ==
    [m \in (DOMAIN metadata) \cap metas |-> metadata[m]]

\* dict.update
Update(d, k, v) == [x \in (DOMAIN d) \cup {k} |-> IF x = k THEN v ELSE d[x]]

AnaStores(metas, inferences, grid) ==
    /\ an_metas = metas
    /\ an_inferences = inferences
    /\ an_grid = grid
    /\ an_pairs = << >>
    /\ an_tasks = << >>
    /\ an_calls = {}
    /\ all_statistics = << >>
    /\ an_pc = "idle"

\* infer() -> _collect_all_stats(): the pairs are matched and every
\* _poll_for_stats coroutine is scheduled by asyncio.as_completed.  A coroutine
\* with empty references finishes on the spot (utils.py:107-108); the others
\* post their payload to their worker and wait (utils.py:110-137).
InferStart ==
    /\ an_pc = "idle"
    /\ an_pairs' = mapped_pairs(an_grid, an_inferences)
    /\ an_tasks' = [k \in DOMAIN an_pairs' |->
                      IF an_pairs'[k].inferences = << >> THEN "ready" ELSE "calling"]
    /\ an_calls' = { [pair |-> k, entry |-> an_pairs'[k].entry,
                      inferences |-> an_pairs'[k].inferences] :
                     k \in { j \in DOMAIN an_pairs' : an_pairs'[j].inferences # << >> } }
    /\ an_pc' = "gather"
    /\ UNCHANGED << an_metas, an_inferences, an_grid, all_statistics >>
    /\ UNCHANGED notAna

\* utils.py:201-202: the short-circuited result of pair k is collected
CollectEmpty(k) ==
    /\ an_pc = "gather"
    /\ k \in DOMAIN an_tasks
    /\ an_tasks[k] = "ready"
    /\ all_statistics' = Update(all_statistics, EntryId(an_grid, an_pairs[k].entry),
                                EmptyStatistics(an_metas))
    /\ an_tasks' = [an_tasks EXCEPT ![k] = "collected"]
    /\ UNCHANGED << an_metas, an_inferences, an_grid, an_pairs, an_calls, an_pc >>
    /\ UNCHANGED notAna

\* utils.py:133-159, 201-202: the call of pair k completes and its filtered
\* statistics are merged into the aggregate
CallCompletes(k) ==
    /\ an_pc = "gather"
    /\ k \in DOMAIN an_tasks
    /\ an_tasks[k] = "calling"
    /\ all_statistics' = Update(all_statistics, EntryId(an_grid, an_pairs[k].entry),
                                filtered_statistics(WorkerResponse(an_pairs[k].entry),
                                                    an_metas))
    /\ an_tasks' = [an_tasks EXCEPT ![k] = "collected"]
    /\ UNCHANGED << an_metas, an_inferences, an_grid, an_pairs, an_calls, an_pc >>
    /\ UNCHANGED notAna

\* mutant: the failure of a call is swallowed and the gathering goes on
CallFails_Swallowed(k) ==
    /\ an_pc = "gather"
    /\ k \in DOMAIN an_tasks
    /\ an_tasks[k] = "calling"
    /\ an_tasks' = [an_tasks EXCEPT ![k] = "failed"]
    /\ UNCHANGED << an_metas, an_inferences, an_grid, an_pairs, an_calls,
                    all_statistics, an_pc >>
    /\ UNCHANGED notAna

\* utils.py:133-150, 201, 222-229: the call of pair k fails (instruct raises,
\* or the response carries no results); `await future` re-raises it out of
\* _collect_all_stats and infer
CallFails(k) ==
    /\ an_pc = "gather"
    /\ k \in DOMAIN an_tasks
    /\ an_tasks[k] = "calling"
    /\ an_tasks' = [an_tasks EXCEPT ![k] = "failed"]
    /\ an_pc' = "raised"
    /\ UNCHANGED << an_metas, an_inferences, an_grid, an_pairs, an_calls,
                    all_statistics >>
    /\ UNCHANGED notAna

\* mutant: the loop ends as soon as one future has been awaited
Exhausted_AfterFirst ==
    \/ an_tasks = << >>
    \/ \E k \in DOMAIN an_tasks : an_tasks[k] \in {"collected", "failed"}

\* utils.py:198-202: asyncio.as_completed is exhausted when every future has
\* been awaited
Exhausted == \A k \in DOMAIN an_tasks : an_tasks[k] \in {"collected", "failed"}

\* utils.py:204, 229  return all_statistics
InferReturn ==
    /\ an_pc = "gather"
    /\ Exhausted
    /\ an_pc' = "returned"
    /\ UNCHANGED << an_metas, an_inferences, an_grid, an_pairs, an_tasks, an_calls,
                    all_statistics >>
    /\ UNCHANGED notAna

AnaNext ==
    \/ InferStart
    \/ \E k \in 1..(MaxGrid * NumWorkers) : CollectEmpty(k)
    \/ \E k \in 1..(MaxGrid * NumWorkers) : CallCompletes(k)
    \/ \E k \in 1..(MaxGrid * NumWorkers) : CallFails(k)
    \/ InferReturn


(***************************************************************************)
(* MLFlogger: initialise_mlflow_experiment / initialise_mlflow_run /       *)
(* log_losses / log_model_performance / log_artifacts / log                *)
(***************************************************************************)
\* mlflow_dir (the local cache, always served first) and the remote server
LocalUri == "mlflow_dir"
RemoteUri == "remote_uri"
URIs == {LocalUri, RemoteUri}

LogSteps == <<"experiment", "run", "losses", "performance", "artifacts">>

\* utils.py:852-857  tracking_uris
tracking_uris(remote) ==
    IF remote # None THEN <<LocalUri, remote>> ELSE <<LocalUri>>

\* MLFRecords.read() of a mapping that was never created: nothing, so that
\* `not record` and `not record.get('mlflow_id')` hold
NoRecord == [mlflow_id |-> 0, mlflow_uri |-> None]

Absent(record) == record.mlflow_id = 0

MlfStores(remote, models) ==
    /\ remote_uri = remote
    /\ tracking_uri = LocalUri
    /\ mlf_records = [kind \in {"experiment", "run"} |-> NoRecord]
    /\ srv_expts = [u \in URIs |-> {}]
    /\ srv_runs = [u \in URIs |-> {}]
    /\ has_models = models
    /\ lg_pc = "idle"
    /\ lg_uris = << >>
    /\ lg_attempts = {}
    /\ lg_logged = {}
    /\ lg_calls = 0

\* mlflow.start_run(experiment_id=..., run_id=...) continues a run: the
\* tracking service in use must hold that experiment and that run
CanContinueRun(uri) ==
    /\ ~Absent(mlf_records["experiment"])
    /\ ~Absent(mlf_records["run"])
    /\ mlf_records["experiment"].mlflow_id \in srv_expts[uri]
    /\ mlf_records["run"].mlflow_id \in srv_runs[uri]

CurrentUri == Head(lg_uris)

\* utils.py:852-860  log() starts with the first tracking URI
LogStart ==
    /\ lg_pc \in {"idle", "done", "raised"}
    /\ lg_calls < MaxLogs
    /\ lg_calls' = lg_calls + 1
    /\ lg_uris' = tracking_uris(remote_uri)
    /\ lg_attempts' = {}
    /\ lg_logged' = {}
    /\ lg_pc' = "experiment"
    /\ UNCHANGED << remote_uri, tracking_uri, mlf_records, srv_expts, srv_runs, has_models >>
    /\ UNCHANGED notMlf

\* utils.py:396-465  initialise_mlflow_experiment(..., tracking_uri)
InitialiseExperiment ==
    /\ lg_pc = "experiment"
    /\ tracking_uri' = CurrentUri
    /\ lg_attempts' = lg_attempts \cup {<<CurrentUri, "experiment">>}
    /\ lg_logged' = lg_logged \cup {<<CurrentUri, "experiment">>}
    /\ IF Absent(mlf_records["experiment"])
         THEN LET id == Cardinality(srv_expts[CurrentUri]) + 1
              IN /\ srv_expts' = [srv_expts EXCEPT ![CurrentUri] = @ \cup {id}]
                 /\ mlf_records' = [mlf_records EXCEPT !["experiment"] =
                                       [mlflow_id |-> id, mlflow_uri |-> CurrentUri]]
         ELSE /\ mlf_records' = [mlf_records EXCEPT !["experiment"].mlflow_uri = CurrentUri]
              /\ UNCHANGED srv_expts
    /\ lg_pc' = "run"
    /\ UNCHANGED << remote_uri, srv_runs, has_models, lg_uris, lg_calls >>
    /\ UNCHANGED notMlf

\* utils.py:468-565  initialise_mlflow_run: the parent experiment mapping must
\* exist; a new run is started under it at the tracking URI in use, which
\* must hold that experiment
InitialiseRun ==
    /\ lg_pc = "run"
    /\ lg_attempts' = lg_attempts \cup {<<CurrentUri, "run">>}
    /\ IF Absent(mlf_records["experiment"])
         THEN /\ lg_pc' = "raised"
              /\ UNCHANGED << mlf_records, srv_runs, lg_logged >>
         ELSE IF Absent(mlf_records["run"])
           THEN IF mlf_records["experiment"].mlflow_id \in srv_expts[tracking_uri]
                  THEN LET id == Cardinality(UNION { srv_runs[u] : u \in URIs }) + 1
                       IN /\ srv_runs' = [srv_runs EXCEPT ![tracking_uri] = @ \cup {id}]
                          /\ mlf_records' = [mlf_records EXCEPT !["run"] =
                                [mlflow_id |-> id,
                                 mlflow_uri |-> mlf_records["experiment"].mlflow_uri]]
                          /\ lg_logged' = lg_logged \cup {<<CurrentUri, "run">>}
                          /\ lg_pc' = "losses"
                  ELSE /\ lg_pc' = "raised"
                       /\ UNCHANGED << mlf_records, srv_runs, lg_logged >>
           ELSE /\ mlf_records' = [mlf_records EXCEPT !["run"].mlflow_uri =
                                       mlf_records["experiment"].mlflow_uri]
                /\ lg_logged' = lg_logged \cup {<<CurrentUri, "run">>}
                /\ lg_pc' = "losses"
                /\ UNCHANGED srv_runs
    /\ UNCHANGED << remote_uri, tracking_uri, srv_expts, has_models, lg_uris, lg_calls >>
    /\ UNCHANGED notMlf

\* utils.py:568-665  log_losses: with archived model metadata the run is
\* continued at the tracking URI in use and the loss histories are logged
LogLosses ==
    /\ lg_pc = "losses"
    /\ lg_attempts' = lg_attempts \cup {<<CurrentUri, "losses">>}
    /\ IF has_models /\ ~CanContinueRun(tracking_uri)
         THEN /\ lg_pc' = "raised"
              /\ UNCHANGED lg_logged
         ELSE /\ lg_logged' = lg_logged \cup {<<CurrentUri, "losses">>}
              /\ lg_pc' = "performance"
    /\ UNCHANGED << remote_uri, tracking_uri, mlf_records, srv_expts, srv_runs,
                    has_models, lg_uris, lg_calls >>
    /\ UNCHANGED notMlf

\* utils.py:668-751  log_model_performance
LogPerformance ==
    /\ lg_pc = "performance"
    /\ lg_attempts' = lg_attempts \cup {<<CurrentUri, "performance">>}
    /\ IF ~CanContinueRun(tracking_uri)
         THEN /\ lg_pc' = "raised"
              /\ UNCHANGED lg_logged
         ELSE /\ lg_logged' = lg_logged \cup {<<CurrentUri, "performance">>}
              /\ lg_pc' = "artifacts"
    /\ UNCHANGED << remote_uri, tracking_uri, mlf_records, srv_expts, srv_runs,
                    has_models, lg_uris, lg_calls >>
    /\ UNCHANGED notMlf

\* utils.py:754-815, 860-900  log_artifacts, then the next tracking URI
LogArtifacts ==
    /\ lg_pc = "artifacts"
    /\ lg_attempts' = lg_attempts \cup {<<CurrentUri, "artifacts">>}
    /\ IF ~CanContinueRun(tracking_uri)
         THEN /\ lg_pc' = "raised"
              /\ UNCHANGED << lg_logged, lg_uris >>
         ELSE /\ lg_logged' = lg_logged \cup {<<CurrentUri, "artifacts">>}
              /\ lg_uris' = Tail(lg_uris)
              /\ lg_pc' = IF Tail(lg_uris) = << >> THEN "done" ELSE "experiment"
    /\ UNCHANGED << remote_uri, tracking_uri, mlf_records, srv_expts, srv_runs,
                    has_models, lg_calls >>
    /\ UNCHANGED notMlf

\* utils.py:860-895: a call into the tracking service (or the reading of a
\* loss history) raises; log() has no handler, so the exception leaves log()
TrackingFails ==
    /\ lg_pc \in {"experiment", "run", "losses", "performance", "artifacts"}
    /\ lg_attempts' = lg_attempts \cup {<<CurrentUri, lg_pc>>}
    /\ lg_pc' = "raised"
    /\ UNCHANGED << remote_uri, tracking_uri, mlf_records, srv_expts, srv_runs,
                    has_models, lg_uris, lg_logged, lg_calls >>
    /\ UNCHANGED notMlf

MlfNext ==
    \/ LogStart
    \/ InitialiseExperiment
    \/ InitialiseRun
    \/ LogLosses
    \/ LogPerformance
    \/ LogArtifacts
    \/ TrackingFails


(***************************************************************************)
(* MLFlogger mappings: initialise_mlflow_experiment / initialise_mlflow_run *)
(* called directly, in any order and with any tracking URI                 *)
(***************************************************************************)
MapStores ==
    /\ mp_log = << >>
    /\ mp_created = 0
    /\ mp_mapped = [kind \in {"experiment", "run"} |-> 0]
    /\ mp_started = 0

\* mutant: every lookup of a mapping comes back empty
Unmapped_Always(record) == TRUE

\* utils.py:430, 513  `if not expt_mlflow_record:` / `if not run_mlflow_record:`
Unmapped(record) == Absent(record)

\* mutant: the update writes the mapping anew under a fresh tracking id
UpdateUri_Remapped(record, uri) == [mlflow_id |-> record.mlflow_id + 1, mlflow_uri |-> uri]

\* utils.py:452-460, 551-559  mlf_records.update(..., updates={'mlflow_uri': ...})
UpdateUri(record, uri) == [record EXCEPT !.mlflow_uri = uri]

\* mutant: the parent experiment is taken for granted
ExperimentInitialised_Assumed == TRUE

\* utils.py:484-500  expt_mlflow_id of the parent mapping is there
ExperimentInitialised == ~Absent(mlf_records["experiment"])

\* mlflow.start_run(experiment_id=...) at the tracking URI in use: without an
\* experiment id mlflow falls back on its default experiment, otherwise the
\* experiment must exist at that URI
CanStartRun(uri) ==
    \/ Absent(mlf_records["experiment"])
    \/ mlf_records["experiment"].mlflow_id \in srv_expts[uri]

Logged(op, uri, raised, after) ==
    Append(mp_log, [op |-> op, uri |-> uri, raised |-> raised,
                    before |-> mlf_records, after |-> after,
                    returned |-> IF raised THEN NoRecord ELSE after[op]])

\* utils.py:396-465  initialise_mlflow_experiment(collab, project, expt, tracking_uri)
CallInitialiseExperiment(uri) ==
    /\ lg_pc = "idle"
    /\ Len(mp_log) < MaxCalls
    /\ tracking_uri' = uri
    /\ LET create == Unmapped(mlf_records["experiment"])
           id == Cardinality(srv_expts[uri]) + 1
           found == IF create THEN [mlflow_id |-> id, mlflow_uri |-> uri]
                    ELSE mlf_records["experiment"]
           stored == IF found.mlflow_uri # uri THEN UpdateUri(found, uri) ELSE found
           after == [mlf_records EXCEPT !["experiment"] = stored]
       IN /\ srv_expts' = IF create THEN [srv_expts EXCEPT ![uri] = @ \cup {id}]
                          ELSE srv_expts
          /\ mp_created' = IF create THEN mp_created + 1 ELSE mp_created
          /\ mp_mapped' = IF create THEN [mp_mapped EXCEPT !["experiment"] = @ + 1]
                          ELSE mp_mapped
          /\ mlf_records' = after
          /\ mp_log' = Logged("experiment", uri, FALSE, after)
    /\ UNCHANGED << remote_uri, srv_runs, has_models, lg_pc, lg_uris, lg_attempts,
                    lg_logged, lg_calls, mp_started >>
    /\ UNCHANGED notMap

\* utils.py:468-565  initialise_mlflow_run(collab, project, expt, run)
CallInitialiseRun ==
    /\ lg_pc = "idle"
    /\ Len(mp_log) < MaxCalls
    /\ LET parent == mlf_records["experiment"]
           create == Unmapped(mlf_records["run"])
           id == Cardinality(UNION { srv_runs[u] : u \in URIs }) + 1
           found == IF create THEN [mlflow_id |-> id, mlflow_uri |-> parent.mlflow_uri]
                    ELSE mlf_records["run"]
           stored == IF found.mlflow_uri # parent.mlflow_uri
                       THEN UpdateUri(found, parent.mlflow_uri) ELSE found
           after == [mlf_records EXCEPT !["run"] = stored]
       IN IF ~ExperimentInitialised \/ (create /\ ~CanStartRun(tracking_uri))
            THEN \* RuntimeError (utils.py:493-500), or mlflow cannot find the experiment
                 /\ mp_log' = Logged("run", tracking_uri, TRUE, mlf_records)
                 /\ UNCHANGED << mlf_records, srv_runs, mp_mapped, mp_started >>
            ELSE /\ srv_runs' = IF create THEN [srv_runs EXCEPT ![tracking_uri] = @ \cup {id}]
                                ELSE srv_runs
                 /\ mp_started' = IF create THEN mp_started + 1 ELSE mp_started
                 /\ mp_mapped' = IF create THEN [mp_mapped EXCEPT !["run"] = @ + 1]
                                 ELSE mp_mapped
                 /\ mlf_records' = after
                 /\ mp_log' = Logged("run", tracking_uri, FALSE, after)
    /\ UNCHANGED << remote_uri, tracking_uri, srv_expts, has_models, lg_pc, lg_uris,
                    lg_attempts, lg_logged, lg_calls, mp_created >>
    /\ UNCHANGED notMap

MapNext ==
    \/ \E uri \in URIs : CallInitialiseExperiment(uri)
    \/ CallInitialiseRun

(***************************************************************************)
(* Hyperparameter trial: tune_proc / run_distributed_federated_cycle       *)
(***************************************************************************)
\* tune_driver_script.py:40
SUPPORTED_METRICS == {"accuracy", "roc_auc_score", "pr_auc_score", "f_score"}

\* Measurements of one metric a participant may have archived (per-class
\* values, in hundredths); a negative value marks a corrupted measurement.
Measurements == { <<50>>, <<-100, 100>>, <<30, 60, 90>> }

\* inference_stats of one participant: {'evaluate': {'statistics': {metric: [...]}}}
StatsOf(ms) == [evaluate |-> [statistics |-> [m \in SUPPORTED_METRICS |-> ms]]]

\* sequences without repetition over the set S
RECURSIVE Orderings(_)
Orderings(S) ==
    IF S = {} THEN { << >> }
    ELSE UNION { { <<x>> \o t : t \in Orderings(S \ {x}) } : x \in S }

\* Operators below bind the value of their argument once, as a Python call
\* does: CHOOSE r \in { e(x) : x \in {v} } : TRUE is e applied to the value of v.

\* exact fractions <<numerator, denominator>> with a positive denominator
RECURSIVE GCD(_, _)
GCD(a, b) ==
    CHOOSE r \in { IF ab[2] = 0 THEN ab[1] ELSE GCD(ab[2], ab[1] % ab[2]) :
                   ab \in {<<a, b>>} } : TRUE

Frac(n, d) ==
    CHOOSE r \in { IF t[3] = 0 THEN <<0, 1>> ELSE <<t[1] \div t[3], t[2] \div t[3]>> :
                   t \in {<<n, d, GCD(IF n < 0 THEN -n ELSE n, d)>>} } : TRUE

FracAdd(x, y) ==
    CHOOSE r \in { Frac(t[1][1] * t[2][2] + t[2][1] * t[1][2], t[1][2] * t[2][2]) :
                   t \in {<<x, y>>} } : TRUE

RECURSIVE FracSum(_)
FracSum(xs) ==
    CHOOSE r \in { IF v = << >> THEN <<0, 1>> ELSE FracAdd(Head(v), FracSum(Tail(v))) :
                   v \in {xs} } : TRUE

\* mutant: negative measurements are averaged as they are
process_nans_Kept(xs) == xs

\* tune_driver_script.py:175  process_nans = lambda x: [max(stat, 0) for stat in x]
process_nans(xs) ==
    CHOOSE r \in { [i \in DOMAIN v |-> IF v[i][1] > 0 THEN v[i] ELSE <<0, 1>>] :
                   v \in {xs} } : TRUE

\* tune_driver_script.py:176  calculate_avg_stats = lambda x: (sum(x)/len(x)) if x else 0
calculate_avg_stats(xs) ==
    CHOOSE r \in { IF v = << >> THEN <<0, 1>>
                   ELSE CHOOSE q \in { Frac(t[1], t[2] * Len(v)) : t \in {FracSum(v)} } : TRUE :
                   v \in {xs} } : TRUE

AsFracs(ms) == [i \in DOMAIN ms |-> <<ms[i], 1>>]

\* tune_driver_script.py:177-183  avg_statistics
avg_statistics(grouped) ==
    [m \in DOMAIN grouped |->
        calculate_avg_stats(process_nans(
            [k \in DOMAIN grouped[m] |->
                calculate_avg_stats(process_nans(AsFracs(grouped[m][k])))]))]

TuneStores(regs) ==
    /\ registrations = regs
    /\ validation_records = << >>
    /\ optim_runs = 0
    /\ optim_published = << >>
    /\ tn_pc = "idle"
    /\ tn_participants = << >>
    /\ grouped_statistics = << >>
    /\ tn_postponed = FALSE
    /\ tn_reports = << >>

\* tune_driver_script.py:283-284  tune_proc outside cluster mode
TrialRejected ==
    /\ tn_pc = "idle"
    /\ ~is_cluster
    /\ tn_pc' = "rejected"
    /\ UNCHANGED << registrations, validation_records, optim_runs, optim_published,
                    tn_participants, grouped_statistics, tn_postponed, tn_reports >>
    /\ UNCHANGED notTune

\* tune_driver_script.py:95-153: the Trial run is created, its combination is
\* handed to the producer as an 'optimize' message and the participants of
\* the project are read
TrialStart ==
    /\ tn_pc = "idle"
    /\ is_cluster
    /\ optim_runs' = optim_runs + 1
    /\ optim_published' = Append(optim_published,
                                 [process |-> "optimize", run |-> optim_runs'])
    /\ tn_participants' = registrations
    /\ grouped_statistics' = << >>
    /\ tn_pc' = "polling"
    /\ UNCHANGED << registrations, validation_records, tn_postponed, tn_reports >>
    /\ UNCHANGED notTune

\* the consumer of the queue archives the validation statistics of
\* participant p for the trial's combination key (archive_validation_outputs)
ArchiveValidation(p, ms) ==
    /\ tn_pc = "polling"
    /\ \E i \in DOMAIN registrations : registrations[i] = p
    /\ p \notin DOMAIN validation_records
    /\ validation_records' = Update(validation_records, p, StatsOf(ms))
    /\ UNCHANGED << registrations, optim_runs, optim_published, tn_pc, tn_participants,
                    grouped_statistics, tn_postponed, tn_reports >>
    /\ UNCHANGED notTune

\* mutant: a participant whose record is still missing is dropped from the wait
Postpone_Dropped(queue, p) == queue

\* tune_driver_script.py:171-172  participants.append(participant_id)
Postpone(queue, p) == Append(queue, p)

\* tune_driver_script.py:164-168: the participant's measurements join the
\* collection of every supported metric
Culminate(grouped, stats) ==
    [m \in SUPPORTED_METRICS |->
        Append(IF m \in DOMAIN grouped THEN grouped[m] ELSE << >>,
               stats.evaluate.statistics[m])]

\* tune_driver_script.py:154-172: one iteration of `while participants:`
PollStep ==
    /\ tn_pc = "polling"
    /\ tn_participants # << >>
    /\ LET participant_id == Head(tn_participants)
           rest == Tail(tn_participants)
       IN IF participant_id \in DOMAIN validation_records
            THEN /\ grouped_statistics' =
                        Culminate(grouped_statistics, validation_records[participant_id])
                 /\ tn_participants' = rest
                 /\ UNCHANGED tn_postponed
            ELSE /\ tn_participants' = Postpone(rest, participant_id)
                 /\ tn_postponed' = TRUE
                 /\ UNCHANGED grouped_statistics
    /\ UNCHANGED << registrations, validation_records, optim_runs, optim_published,
                    tn_pc, tn_reports >>
    /\ UNCHANGED notTune

\* mutant: the trial returns without reporting
Report_Silent ==
    /\ tn_pc = "polling"
    /\ tn_participants = << >>
    /\ tn_pc' = "reported"
    /\ UNCHANGED << registrations, validation_records, optim_runs, optim_published,
                    tn_participants, grouped_statistics, tn_postponed, tn_reports >>
    /\ UNCHANGED notTune

\* tune_driver_script.py:174-185: the loop has ended; tune.report(**avg_statistics)
Report ==
    /\ tn_pc = "polling"
    /\ tn_participants = << >>
    /\ tn_reports' = Append(tn_reports, avg_statistics(grouped_statistics))
    /\ tn_pc' = "reported"
    /\ UNCHANGED << registrations, validation_records, optim_runs, optim_published,
                    tn_participants, grouped_statistics, tn_postponed >>
    /\ UNCHANGED notTune

TuneNext ==
    \/ TrialRejected
    \/ TrialStart
    \/ \E p \in Participants, ms \in Measurements : ArchiveValidation(p, ms)
    \/ PollStep
    \/ Report

(***************************************************************************)
(* execute_optimization_job: the composite train + validate dispatch        *)
(***************************************************************************)
Producers == {"train", "evaluate"}

JobStores(keys, grid) ==
    /\ oj_pc = "idle"
    /\ oj_keys = keys
    /\ oj_grid = grid
    /\ oj_conns = [pr \in Producers |-> "none"]
    /\ oj_published = << >>
    /\ oj_failed = "no"
    /\ oj_trained = FALSE

\* optimizations.py:203-209  both producers are constructed and connected
OptConnect ==
    /\ oj_pc = "idle"
    /\ oj_conns' = [pr \in Producers |-> "open"]
    /\ oj_pc' = "train"
    /\ UNCHANGED << oj_keys, oj_grid, oj_published, oj_failed, oj_trained >>
    /\ UNCHANGED notJob

\* optimizations.py:208-209  a connect() raises, ahead of the try block: the
\* producer connected before it stays connected
OptConnectFails(pr) ==
    /\ oj_pc = "idle"
    /\ oj_conns' = IF pr = "evaluate" THEN [oj_conns EXCEPT !["train"] = "open"]
                   ELSE oj_conns
    /\ oj_failed' = "connect"
    /\ oj_pc' = "raised"
    /\ UNCHANGED << oj_keys, oj_grid, oj_published, oj_trained >>
    /\ UNCHANGED notJob

\* optimizations.py:212-218  train_producer.process(process='train', ...)
PublishTrain ==
    /\ oj_pc = "train"
    /\ oj_published' = Append(oj_published,
                              [process |-> "train", keys |-> oj_keys,
                               parameters |-> "job_info"])
    /\ oj_pc' = "validate"
    /\ UNCHANGED << oj_keys, oj_grid, oj_conns, oj_failed, oj_trained >>
    /\ UNCHANGED notJob

\* optimizations.py:212-218, 229-232  the train publication raises
PublishTrainFails ==
    /\ oj_pc = "train"
    /\ oj_failed' = "train"
    /\ oj_pc' = "finally"
    /\ UNCHANGED << oj_keys, oj_grid, oj_conns, oj_published, oj_trained >>
    /\ UNCHANGED notJob

\* mutant: the validation is held back until the training has finished
PublishValidate_AfterTraining ==
    /\ oj_pc = "validate"
    /\ oj_trained
    /\ oj_published' = Append(oj_published,
                              [process |-> "validate", keys |-> oj_keys,
                               parameters |-> "job_info", participants |-> oj_grid])
    /\ oj_pc' = "finally"
    /\ UNCHANGED << oj_keys, oj_grid, oj_conns, oj_failed, oj_trained >>
    /\ UNCHANGED notJob

\* optimizations.py:220-227  the participants of the selected grid are
\* listed and evaluate_producer.process(process='validate', ...) is called
PublishValidate ==
    /\ oj_pc = "validate"
    /\ LET participants == [i \in DOMAIN oj_grid |-> oj_grid[i]]
       IN oj_published' = Append(oj_published,
                                 [process |-> "validate", keys |-> oj_keys,
                                  parameters |-> "job_info",
                                  participants |-> participants])
    /\ oj_pc' = "finally"
    /\ UNCHANGED << oj_keys, oj_grid, oj_conns, oj_failed, oj_trained >>
    /\ UNCHANGED notJob

\* optimizations.py:220-232  the grid lookup or the validate publication raises
PublishValidateFails ==
    /\ oj_pc = "validate"
    /\ oj_failed' = "validate"
    /\ oj_pc' = "finally"
    /\ UNCHANGED << oj_keys, oj_grid, oj_conns, oj_published, oj_trained >>
    /\ UNCHANGED notJob

\* optimizations.py:229-239  finally: both producers disconnect; the job
\* returns its outputs, or the exception goes on
OptDisconnect ==
    /\ oj_pc = "finally"
    /\ oj_conns' = [pr \in Producers |-> "closed"]
    /\ oj_pc' = IF oj_failed = "no" THEN "returned" ELSE "raised"
    /\ UNCHANGED << oj_keys, oj_grid, oj_published, oj_failed, oj_trained >>
    /\ UNCHANGED notJob

\* the consumer of the train queue finishes the training it was sent
TrainingCompletes ==
    /\ oj_published # << >>
    /\ ~oj_trained
    /\ oj_trained' = TRUE
    /\ UNCHANGED << oj_pc, oj_keys, oj_grid, oj_conns, oj_published, oj_failed >>
    /\ UNCHANGED notJob

JobNext ==
    \/ OptConnect
    \/ \E pr \in Producers : OptConnectFails(pr)
    \/ PublishTrain
    \/ PublishTrainFails
    \/ PublishValidate
    \/ PublishValidateFails
    \/ OptDisconnect
    \/ TrainingCompletes

(***************************************************************************)
(* Optimizations.get / Optimizations.post                                  *)
(***************************************************************************)
OptStores ==
    /\ op_log = << >>
    /\ op_pc = "idle"
    /\ searches = 0

\* optimizations.py:53  HYPERTUNER_BACKENDS, and a name outside of it
Backends == {"nni", "tune", "other"}

\* mutant: the optimisation routes are open in every mode
OptimizationsActive_Always == TRUE

\* optimizations.py:297, 418  `if not is_cluster:` abort(403)
OptimizationsActive == is_cluster

Answered(method, status) == Append(op_log, [method |-> method, status |-> status])

\* optimizations.py:276-356  Optimizations.get
OptimizationsGet ==
    /\ Len(op_log) < MaxRequests
    /\ op_log' = Answered("GET",
                          IF ~OptimizationsActive THEN 403
                          ELSE IF validation_records # << >> THEN 200 ELSE 404)
    /\ UNCHANGED << op_pc, searches >>
    /\ UNCHANGED notOpt

\* optimizations.py:358-496  Optimizations.post up to hypertuner.tune: the
\* request is rejected outside cluster mode, fails on a collaboration without
\* queue, is answered 417 for an unknown backend, or starts the search
OptimizationsPost(backend) ==
    /\ op_pc = "idle"
    /\ Len(op_log) < MaxRequests
    /\ IF ~OptimizationsActive
         THEN /\ op_log' = Answered("POST", 403)
              /\ UNCHANGED << op_pc, searches >>
         ELSE IF ~has_mq
           THEN /\ op_log' = Answered("POST", 500)
                /\ UNCHANGED << op_pc, searches >>
           ELSE IF backend \notin {"nni", "tune"}
             THEN /\ op_log' = Answered("POST", 417)
                  /\ UNCHANGED << op_pc, searches >>
             ELSE /\ searches' = searches + 1
                  /\ op_pc' = "searching"
                  /\ UNCHANGED op_log
    /\ UNCHANGED notOpt

\* optimizations.py:498-553  the search has ended: the Trial runs created
\* under the experiment are returned, 404 when there are none
OptimizationsPostAnswers ==
    /\ op_pc = "searching"
    /\ tn_pc # "polling"
    /\ op_log' = Answered("POST", IF optim_runs > 0 THEN 200 ELSE 404)
    /\ op_pc' = "idle"
    /\ UNCHANGED searches
    /\ UNCHANGED notOpt

OptNext ==
    \/ OptimizationsGet
    \/ \E backend \in Backends : OptimizationsPost(backend)
    \/ OptimizationsPostAnswers
    \/ TrialRejected
    \/ TrialStart
    \/ \E p \in Participants, ms \in Measurements : ArchiveValidation(p, ms)
    \/ PollStep
    \/ Report

(***************************************************************************)
(* archive_validation_outputs and the validation table of the archive      *)
(***************************************************************************)
\* participants, combination keys and statistics of the archived outputs
ArchParticipants == {1, 2}
ArchFilters == {<<"expt_1", "run_1">>, <<"expt_1", "run_2">>}
ArchDetails == {"stats_a", "stats_b"}

\* outputs of one job: (participant, statistics) pairs in the order of
\* outputs.items(), one pair per participant
ArchOutputs ==
    UNION { { [i \in DOMAIN ps |-> <<ps[i], f[i]>>] : f \in [DOMAIN ps -> ArchDetails] } :
            ps \in UNION { Orderings(S) : S \in (SUBSET ArchParticipants) \ {{}} } }

ArcStores ==
    /\ ar_table = << >>
    /\ ar_log = << >>

Holds(table, participant, filters) ==
    { i \in DOMAIN table : table[i].participant = participant /\ table[i].filters = filters }

\* mutant: every create inserts a new document
Upsert_Inserted(table, participant, filters, details) ==
    Append(table, [doc_id |-> Len(table) + 1, participant |-> participant,
                   filters |-> filters, details |-> details])

\* validation_records.create(*worker_keys, details=...): the document stored
\* under the key is overwritten in place, a new one is inserted otherwise
\* (the behaviour tests/conftest.py:839-870 checks of every record store)
Upsert(table, participant, filters, details) ==
    IF Holds(table, participant, filters) # {}
      THEN [i \in DOMAIN table |->
              IF i \in Holds(table, participant, filters)
                THEN [table[i] EXCEPT !.details = details]
                ELSE table[i]]
      ELSE Append(table, [doc_id |-> Len(table) + 1, participant |-> participant,
                          filters |-> filters, details |-> details])

\* validations.py:197-203  for participant_id, inference_stats in outputs.items()
RECURSIVE CreateAll(_, _, _)
CreateAll(table, filters, outputs) ==
    IF outputs = << >> THEN table
    ELSE CreateAll(Upsert(table, Head(outputs)[1], filters, Head(outputs)[2]),
                   filters, Tail(outputs))

\* validations.py:184-210  archive_validation_outputs(filters, outputs): every
\* participant's statistics are stored, then MLFlogger().log(...) replays
\* them into the tracking service and either returns or raises
ArchiveValidationOutputs(filters, outputs, logged) ==
    /\ Len(ar_log) < MaxArchives
    /\ ar_table' = CreateAll(ar_table, filters, outputs)
    /\ ar_log' = Append(ar_log, [filters |-> filters, outputs |-> outputs,
                                 before |-> ar_table, after |-> ar_table',
                                 raised |-> ~logged])
    /\ UNCHANGED notArc

ArcNext ==
    \E filters \in ArchFilters, outputs \in ArchOutputs, logged \in BOOLEAN :
        ArchiveValidationOutputs(filters, outputs, logged)

(***************************************************************************)
(* MLFlogger.log_losses: the loop over the archived models                 *)
(***************************************************************************)
Rounds == 1..2

LossVals == {10, 20}

LossMetas == {"train"}

LocalOrigins == {"worker_1", "worker_2"}

Unbound == [unbound |-> TRUE]

\* a loss history file: round index -> loss; the global model keeps one per meta
Histories == [Rounds -> LossVals]

\* the archived metadata of a run: the global model first, then the local
\* models, each with the loss history stored at its loss_history path
ModelMetadata ==
    UNION { { << [m_type |-> "global", origin |-> "ttp",
                  loss_history |-> [meta \in LossMetas |-> g] ] >>
              \o [i \in DOMAIN os |-> [m_type |-> "local", origin |-> os[i],
                                       loss_history |-> l[os[i]]]] :
              g \in Histories, l \in [LocalOrigins -> Histories] } :
            os \in UNION { Orderings(S) : S \in (SUBSET LocalOrigins) \ {{}} } }

LossStores(models) ==
    /\ ll_models = models
    /\ ll_i = 0
    /\ ll_losses = Unbound
    /\ ll_metrics = {}
    /\ ll_pc = "idle"

LossQuiet == LossStores(<< >>)

\* the points logged for one history under one key
Points(key, losses) ==
    { [key |-> key, value |-> losses[r], step |-> r] : r \in DOMAIN losses }

\* utils.py:582-634: both mappings exist, the model metadata is read and the
\* run is continued
LogLossesStart ==
    /\ ll_pc = "idle"
    /\ ll_models # << >>
    /\ ll_pc' = "logging"
    /\ UNCHANGED << ll_models, ll_i, ll_losses, ll_metrics >>
    /\ UNCHANGED notLoss

\* utils.py:637-652: the iteration for the global model; `losses` is bound by
\* the loop over loss_history.items() and stays bound after it
LogGlobalLosses ==
    /\ ll_pc = "logging"
    /\ ll_i < Len(ll_models)
    /\ ll_models[ll_i + 1].m_type = "global"
    /\ LET loss_history == ll_models[ll_i + 1].loss_history
       IN /\ ll_metrics' = ll_metrics \cup
                 UNION { Points(<<"global", meta, "loss">>, loss_history[meta]) :
                         meta \in DOMAIN loss_history }
          /\ ll_losses' = loss_history[CHOOSE meta \in DOMAIN loss_history : TRUE]
    /\ ll_i' = ll_i + 1
    /\ UNCHANGED << ll_models, ll_pc >>
    /\ UNCHANGED notLoss

\* utils.py:637-645, 654-661: the iteration for a local model; its file is
\* loaded into loss_history, the points are taken from `losses`
LogLocalLosses ==
    /\ ll_pc = "logging"
    /\ ll_i < Len(ll_models)
    /\ ll_models[ll_i + 1].m_type # "global"
    /\ ll_losses # Unbound
    /\ ll_metrics' = ll_metrics \cup
           Points(<<ll_models[ll_i + 1].origin, "local", "loss">>, ll_losses)
    /\ ll_i' = ll_i + 1
    /\ UNCHANGED << ll_models, ll_losses, ll_pc >>
    /\ UNCHANGED notLoss

\* utils.py:663  return stripped_metadata
LogLossesReturns ==
    /\ ll_pc = "logging"
    /\ ll_i = Len(ll_models)
    /\ ll_pc' = "done"
    /\ UNCHANGED << ll_models, ll_i, ll_losses, ll_metrics >>
    /\ UNCHANGED notLoss

LossNext ==
    \/ LogLossesStart
    \/ LogGlobalLosses
    \/ LogLocalLosses
    \/ LogLossesReturns

(***************************************************************************)
(* Record stores: delete with its downstream relations                     *)
(***************************************************************************)
RunKeys == { <<"collab_1", "project_1", "expt_1", "run_1">>,
             <<"collab_1", "project_1", "expt_1", "run_2">> }

RegistrationKeys == { <<"collab_1", "project_1", "participant_1">>,
                      <<"collab_1", "project_1", "participant_2">> }

NoDelete == [kind |-> "none"]

StQuiet ==
    /\ st_runs = {}
    /\ st_models = {}
    /\ st_validations = {}
    /\ st_predictions = {}
    /\ st_registrations = {}
    /\ st_tags = {}
    /\ st_alignments = {}
    /\ st_deleted = NoDelete

runStores == << st_runs, st_models, st_validations, st_predictions >>

regStores == << st_registrations, st_tags, st_alignments >>

\* mutant: only the record itself is removed
Cascade_RecordOnly(store, key) == store

\* Records.delete: the records of a downstream store related to the deleted key
Cascade(store, key) == store \ {key}

\* run_records.create
CreateRun(key) ==
    /\ key \notin st_runs
    /\ st_runs' = st_runs \cup {key}
    /\ UNCHANGED << st_models, st_validations, st_predictions, regStores, st_deleted >>
    /\ UNCHANGED notSt

\* model_records.create / validation_records.create / prediction_records.create
\* under an existing run
CreateUnderRun(kind, key) ==
    /\ key \in st_runs
    /\ st_models' = IF kind = "model" THEN st_models \cup {key} ELSE st_models
    /\ st_validations' = IF kind = "validation" THEN st_validations \cup {key}
                         ELSE st_validations
    /\ st_predictions' = IF kind = "prediction" THEN st_predictions \cup {key}
                         ELSE st_predictions
    /\ << st_models', st_validations', st_predictions' >>
           # << st_models, st_validations, st_predictions >>
    /\ UNCHANGED << st_runs, regStores, st_deleted >>
    /\ UNCHANGED notSt

\* run_records.delete: the run record and every model, validation and
\* prediction record under it
DeleteRun(key) ==
    /\ key \in st_runs
    /\ st_runs' = st_runs \ {key}
    /\ st_models' = Cascade(st_models, key)
    /\ st_validations' = Cascade(st_validations, key)
    /\ st_predictions' = Cascade(st_predictions, key)
    /\ st_deleted' = [kind |-> "run", key |-> key,
                      before |-> { s \in {2, 3, 4} : key \in runStores[s] },
                      after |-> { s \in 1..4 : key \in runStores'[s] }]
    /\ UNCHANGED regStores
    /\ UNCHANGED notSt

\* registration_records.create
CreateRegistration(key) ==
    /\ key \notin st_registrations
    /\ st_registrations' = st_registrations \cup {key}
    /\ UNCHANGED << st_tags, st_alignments, runStores, st_deleted >>
    /\ UNCHANGED notSt

\* tag_records.create / alignment_records.create under an existing registration
CreateUnderRegistration(kind, key) ==
    /\ key \in st_registrations
    /\ st_tags' = IF kind = "tag" THEN st_tags \cup {key} ELSE st_tags
    /\ st_alignments' = IF kind = "alignment" THEN st_alignments \cup {key}
                        ELSE st_alignments
    /\ << st_tags', st_alignments' >> # << st_tags, st_alignments >>
    /\ UNCHANGED << st_registrations, runStores, st_deleted >>
    /\ UNCHANGED notSt

\* registration_records.delete: the registration and the tag and alignment
\* records under it
DeleteRegistration(key) ==
    /\ key \in st_registrations
    /\ st_registrations' = st_registrations \ {key}
    /\ st_tags' = Cascade(st_tags, key)
    /\ st_alignments' = Cascade(st_alignments, key)
    /\ st_deleted' = [kind |-> "registration", key |-> key,
                      before |-> { s \in {2, 3} : key \in regStores[s] },
                      after |-> { s \in 1..3 : key \in regStores'[s] }]
    /\ UNCHANGED runStores
    /\ UNCHANGED notSt

StNext ==
    \/ \E key \in RunKeys : CreateRun(key)
    \/ \E kind \in {"model", "validation", "prediction"}, key \in RunKeys :
          CreateUnderRun(kind, key)
    \/ \E key \in RunKeys : DeleteRun(key)
    \/ \E key \in RegistrationKeys : CreateRegistration(key)
    \/ \E kind \in {"tag", "alignment"}, key \in RegistrationKeys :
          CreateUnderRegistration(kind, key)
    \/ \E key \in RegistrationKeys : DeleteRegistration(key)

(***************************************************************************)
(* Optimize cycle: the consumers of the train and evaluate queues          *)
(***************************************************************************)
ConQuiet == oj_validated = FALSE

\* the validate message of the cycle is in the evaluate queue
ValidatePublished ==
    \E i \in DOMAIN oj_published : oj_published[i].process = "validate"

\* the consumer of the evaluate queue executes the validate job it was sent;
\* the message holds the keys, the grids and the parameters, nothing about the
\* train job of the same keys
ValidationExecutes ==
    /\ ValidatePublished
    /\ ~oj_validated
    /\ oj_validated' = TRUE
    /\ UNCHANGED notCon

CycleNext ==
    \/ OptConnect
    \/ \E pr \in Producers : OptConnectFails(pr)
    \/ PublishTrain
    \/ PublishTrainFails
    \/ PublishValidate
    \/ PublishValidateFails
    \/ OptDisconnect
    \/ TrainingCompletes
    \/ ValidationExecutes

(***************************************************************************)
(* Specifications                                                          *)
(***************************************************************************)
AllMatched == [p \in Participants |-> <<0, 1>>]

AnaQuiet == AnaStores(AllMetas, << >>, << >>)

MetaChoices == { {"evaluate"}, {"predict"}, AllMetas }

MlfQuiet == MlfStores(None, FALSE)

TuneQuiet == TuneStores(<< >>)

JobQuiet == JobStores(1, << >>)

PredInit ==
    /\ \E a \in [Participants -> SpacerVals] : PredStores(a)
    /\ DispStores(FALSE, FALSE)
    /\ AnaQuiet
    /\ MlfQuiet
    /\ TuneQuiet
    /\ MapStores
    /\ JobQuiet
    /\ OptStores
    /\ ArcStores
    /\ AlnStores
    /\ ResQuiet
    /\ ErrStores
    /\ LossQuiet
    /\ StQuiet
    /\ ConQuiet

SpecPredict == PredInit /\ [][PredNext]_vars

DispInit ==
    /\ PredStores(AllMatched)
    /\ \E c \in BOOLEAN, q \in BOOLEAN : DispStores(c, q)
    /\ AnaQuiet
    /\ MlfQuiet
    /\ TuneQuiet
    /\ MapStores
    /\ JobQuiet
    /\ OptStores
    /\ ArcStores
    /\ AlnStores
    /\ ResQuiet
    /\ ErrStores
    /\ LossQuiet
    /\ StQuiet
    /\ ConQuiet

SpecDispatch == DispInit /\ [][DispNext]_vars

AnaInit ==
    /\ PredStores(AllMatched)
    /\ DispStores(FALSE, FALSE)
    /\ \E metas \in MetaChoices, grid \in SeqUpTo(Workers, MaxGrid) \ {<< >>} :
         \E inferences \in { f \in PartialMaps(Workers, UNION { RefsOf(w) : w \in Workers }) :
                                 \A w \in DOMAIN f : f[w] \in RefsOf(w) } :
            AnaStores(metas, inferences, grid)
    /\ MlfQuiet
    /\ TuneQuiet
    /\ MapStores
    /\ JobQuiet
    /\ OptStores
    /\ ArcStores
    /\ AlnStores
    /\ ResQuiet
    /\ ErrStores
    /\ LossQuiet
    /\ StQuiet
    /\ ConQuiet

SpecAnalyser == AnaInit /\ [][AnaNext]_vars

MlfInit ==
    /\ PredStores(AllMatched)
    /\ DispStores(FALSE, FALSE)
    /\ AnaQuiet
    /\ \E remote \in {None, RemoteUri}, models \in BOOLEAN : MlfStores(remote, models)
    /\ TuneQuiet
    /\ MapStores
    /\ JobQuiet
    /\ OptStores
    /\ ArcStores
    /\ AlnStores
    /\ ResQuiet
    /\ ErrStores
    /\ LossQuiet
    /\ StQuiet
    /\ ConQuiet

SpecMLF == MlfInit /\ [][MlfNext]_vars

TuneInit ==
    /\ PredStores(AllMatched)
    /\ \E c \in BOOLEAN : DispStores(c, TRUE)
    /\ AnaQuiet
    /\ MlfQuiet
    /\ \E regs \in UNION { Orderings(S) : S \in SUBSET Participants } : TuneStores(regs)
    /\ MapStores
    /\ JobQuiet
    /\ OptStores
    /\ ArcStores
    /\ AlnStores
    /\ ResQuiet
    /\ ErrStores
    /\ LossQuiet
    /\ StQuiet
    /\ ConQuiet

SpecTune == TuneInit /\ [][TuneNext]_vars

\* The trial runs in a process of its own: its loop keeps being scheduled,
\* and so does the report that follows it.  Nothing forces the consumer to
\* archive.
SpecTuneFair == SpecTune /\ WF_vars(PollStep) /\ WF_vars(Report)

MapInit ==
    /\ PredStores(AllMatched)
    /\ DispStores(FALSE, FALSE)
    /\ AnaQuiet
    /\ MlfQuiet
    /\ TuneQuiet
    /\ MapStores
    /\ JobQuiet
    /\ OptStores
    /\ ArcStores
    /\ AlnStores
    /\ ResQuiet
    /\ ErrStores
    /\ LossQuiet
    /\ StQuiet
    /\ ConQuiet

SpecMapping == MapInit /\ [][MapNext]_vars

JobInit ==
    /\ PredStores(AllMatched)
    /\ DispStores(TRUE, TRUE)
    /\ AnaQuiet
    /\ MlfQuiet
    /\ TuneQuiet
    /\ MapStores
    /\ \E keys \in 1..MaxCombos, grid \in UNION { Orderings(S) : S \in SUBSET Participants } :
            JobStores(keys, grid)
    /\ OptStores
    /\ ArcStores
    /\ AlnStores
    /\ ResQuiet
    /\ ErrStores
    /\ LossQuiet
    /\ StQuiet
    /\ ConQuiet

SpecOptJob == JobInit /\ [][JobNext]_vars

OptInit ==
    /\ PredStores(AllMatched)
    /\ \E c \in BOOLEAN, q \in BOOLEAN : DispStores(c, q)
    /\ AnaQuiet
    /\ MlfQuiet
    /\ \E regs \in { << >>, <<1>>, <<1, 2>> } : TuneStores(regs)
    /\ MapStores
    /\ JobQuiet
    /\ OptStores
    /\ ArcStores
    /\ AlnStores
    /\ ResQuiet
    /\ ErrStores
    /\ LossQuiet
    /\ StQuiet
    /\ ConQuiet

SpecOptimize == OptInit /\ [][OptNext]_vars

ArcInit ==
    /\ PredStores(AllMatched)
    /\ DispStores(FALSE, FALSE)
    /\ AnaQuiet
    /\ MlfQuiet
    /\ TuneQuiet
    /\ MapStores
    /\ JobQuiet
    /\ OptStores
    /\ ArcStores
    /\ AlnStores
    /\ ResQuiet
    /\ ErrStores
    /\ LossQuiet
    /\ StQuiet
    /\ ConQuiet

SpecArchive == ArcInit /\ [][ArcNext]_vars

AlnInit ==
    /\ PredStores(AllMatched)
    /\ DispStores(FALSE, FALSE)
    /\ AnaQuiet
    /\ MlfQuiet
    /\ TuneQuiet
    /\ MapStores
    /\ JobQuiet
    /\ OptStores
    /\ ArcStores
    /\ AlnStores
    /\ ResQuiet
    /\ ErrStores
    /\ LossQuiet
    /\ StQuiet
    /\ ConQuiet

SpecAlign == AlnInit /\ [][AlnNext]_vars

ResInit ==
    /\ PredStores(AllMatched)
    /\ DispStores(FALSE, FALSE)
    /\ AnaQuiet
    /\ MlfQuiet
    /\ TuneQuiet
    /\ MapStores
    /\ JobQuiet
    /\ OptStores
    /\ ArcStores
    /\ AlnStores
    /\ ErrStores
    /\ LossQuiet
    /\ \E cores \in 1..MaxCores, concurrency \in 1..MaxTrials, trials \in 1..MaxTrials :
          ResStores(cores, concurrency, trials)
    /\ StQuiet
    /\ ConQuiet

SpecResources == ResInit /\ [][ResNext]_vars

ErrInit ==
    /\ PredStores(AllMatched)
    /\ DispStores(FALSE, FALSE)
    /\ AnaQuiet
    /\ MlfQuiet
    /\ TuneQuiet
    /\ MapStores
    /\ JobQuiet
    /\ OptStores
    /\ ArcStores
    /\ AlnStores
    /\ ResQuiet
    /\ ErrStores
    /\ LossQuiet
    /\ StQuiet
    /\ ConQuiet

SpecErrors == ErrInit /\ [][ErrNext]_vars

LossInit ==
    /\ PredStores(AllMatched)
    /\ DispStores(FALSE, FALSE)
    /\ AnaQuiet
    /\ MlfQuiet
    /\ TuneQuiet
    /\ MapStores
    /\ JobQuiet
    /\ OptStores
    /\ ArcStores
    /\ AlnStores
    /\ ResQuiet
    /\ ErrStores
    /\ \E models \in ModelMetadata : LossStores(models)
    /\ StQuiet
    /\ ConQuiet

SpecLosses == LossInit /\ [][LossNext]_vars

StInit ==
    /\ PredStores(AllMatched)
    /\ DispStores(FALSE, FALSE)
    /\ AnaQuiet
    /\ MlfQuiet
    /\ TuneQuiet
    /\ MapStores
    /\ JobQuiet
    /\ OptStores
    /\ ArcStores
    /\ AlnStores
    /\ ResQuiet
    /\ ErrStores
    /\ LossQuiet
    /\ StQuiet
    /\ ConQuiet

SpecStores == StInit /\ [][StNext]_vars

CycleInit ==
    /\ PredStores(AllMatched)
    /\ DispStores(TRUE, TRUE)
    /\ AnaQuiet
    /\ MlfQuiet
    /\ TuneQuiet
    /\ MapStores
    /\ \E keys \in 1..MaxCombos, grid \in UNION { Orderings(S) : S \in SUBSET Participants } :
            JobStores(keys, grid)
    /\ OptStores
    /\ ArcStores
    /\ AlnStores
    /\ ResQuiet
    /\ ErrStores
    /\ LossQuiet
    /\ StQuiet
    /\ ConQuiet

SpecOptCycle == CycleInit /\ [][CycleNext]_vars

(***************************************************************************)
(* Claims about the prediction job                                         *)
(***************************************************************************)

NonTriggering == Participants \ {pj_participant}

\* some participant other than the triggering one has recomputed spacer
\* indexes that differ from its archived AlignmentRecord
DriftPresent == \E p \in NonTriggering : pre_alignments[p] # pj_spacers[p]

JobAccepted == pj_pc \in {"infer", "archive", "done"}

\* C1: whenever the recomputed spacer indexes of a participant other than the
\* triggering one differ from its archived AlignmentRecord, the job aborts with
\* the feature-drift error, and at the abort no AlignmentRecord (the
\* triggering participant's included) has been written, whatever the order in
\* which the spacer collection is iterated.
C1_DriftAbortsBeforeAnyAlignmentWrite ==
    /\ (JobAccepted => ~DriftPresent)
    /\ (pj_pc = "aborted" => alignment_records = pre_alignments)

\* C2: a prediction request rejected for feature drift has written nothing:
\* every tag, alignment and prediction record equals its value before the
\* request.
C2_RejectedRequestWritesNothing ==
    pj_pc = "aborted" =>
        /\ tag_records = pre_tags
        /\ alignment_records = pre_alignments
        /\ prediction_records = pre_predictions

\* C3: when the recomputed spacer indexes of every non-triggering participant
\* equal their archived AlignmentRecords the job is not rejected, and once the
\* loop has accepted, the triggering participant's AlignmentRecord is the
\* freshly computed spacer indexes and every other AlignmentRecord is the one
\* archived before the request.
C3_MatchAcceptedOnlyDeclarerUpdated ==
    /\ (pj_pc # "idle" /\ ~DriftPresent => pj_pc # "aborted")
    /\ (JobAccepted =>
          /\ alignment_records[pj_participant] = pj_spacers[pj_participant]
          /\ \A p \in NonTriggering : alignment_records[p] = pre_alignments[p])

\* C3 witness: an accepted job with auto-alignment that changed the
\* declarer's AlignmentRecord.
C3_Witness ==
    /\ pj_pc = "done"
    /\ pj_auto_align
    /\ alignment_records[pj_participant] # pre_alignments[pj_participant]
    /\ \A p \in NonTriggering : alignment_records[p] = pre_alignments[p]

(***************************************************************************)
(* Claims about the triggers                                               *)
(***************************************************************************)

\* C4: for every request to the alignment, validation and prediction
\* triggers, in cluster mode no job function is executed in-process, and in
\* standalone mode no queue producer is constructed or connected (and
\* nothing is published).
C4_ModesAreExclusive ==
    /\ (is_cluster => executed = << >>)
    /\ (~is_cluster => producers = 0 /\ connection = "none" /\ published = << >>)

\* C4 witness: a cluster-mode request that published every combination and
\* answered, without ever running a job in-process.
C4_Witness ==
    /\ is_cluster
    /\ rq_pc = "done"
    /\ response = 200
    /\ Len(published) = MaxCombos
    /\ connection = "closed"

(***************************************************************************)
(* Claims about the statistics poller                                      *)
(***************************************************************************)

\* worker ids that occur in the grid
GridIds == { an_grid[i] : i \in DOMAIN an_grid }

\* participants the inference references name
Referenced == DOMAIN an_inferences

\* participants whose call failed
FailedParticipants ==
    { EntryId(an_grid, an_pairs[k].entry) : k \in { j \in DOMAIN an_tasks : an_tasks[j] = "failed" } }

\* C6: if the statistics call to any participant fails, Analyser.infer raises
\* the failure; it never returns an aggregate, let alone one from which that
\* participant's entry is missing.
C6_FailedCallIsRaised ==
    /\ (FailedParticipants # {} => an_pc = "raised")
    /\ (an_pc = "returned" =>
          \A k \in DOMAIN an_pairs :
              EntryId(an_grid, an_pairs[k].entry) \in DOMAIN all_statistics)

\* C6 witness: one call was answered and merged, another failed, and infer raised.
C6_Witness ==
    /\ an_pc = "raised"
    /\ FailedParticipants # {}
    /\ \E k \in DOMAIN an_tasks : an_tasks[k] = "collected" /\ an_pairs[k].inferences # << >>

\* C7 (as claimed): for any grid and any inference-reference map the key set
\* of the returned map equals the set of participants referenced in the
\* input, and a participant with an empty reference maps every requested
\* phase to an empty map without a network call.
C7_OneEntryPerReferencedParticipant ==
    an_pc = "returned" =>
        /\ DOMAIN all_statistics = Referenced
        /\ \A w \in Referenced : an_inferences[w] = << >> =>
              /\ all_statistics[w] = [m \in an_metas |-> {}]
              /\ \A c \in an_calls : an_grid[c.entry] # w

\* C7 (amended): the key set of the returned map equals the set of referenced
\* participants that have a grid entry; each of those has exactly one entry,
\* and one whose reference is empty maps every requested phase to an empty
\* map and was sent no network call.
C7_OneEntryPerReferencedParticipantInGrid ==
    an_pc = "returned" =>
        /\ DOMAIN all_statistics = Referenced \cap GridIds
        /\ \A w \in Referenced \cap GridIds : an_inferences[w] = << >> =>
              /\ all_statistics[w] = [m \in an_metas |-> {}]
              /\ DOMAIN all_statistics[w] = an_metas
              /\ \A c \in an_calls : an_grid[c.entry] # w

\* C7 witness: a returned aggregate that holds a called participant and a
\* short-circuited one.
C7_Witness ==
    /\ an_pc = "returned"
    /\ \E w \in Referenced \cap GridIds : an_inferences[w] = << >>
    /\ \E w \in Referenced \cap GridIds : an_inferences[w] # << >>
    /\ an_calls # {}

\* C8: each statistics call pairs a reference with a grid entry whose worker
\* id equals the reference's key: the payload sent to an entry is the
\* reference stored under that entry's own worker id, and an entry whose
\* worker id has no reference is in no pair and receives no call.
C8_PairedByWorkerId ==
    an_pc # "idle" =>
        /\ \A k \in DOMAIN an_pairs :
              /\ an_grid[an_pairs[k].entry] = an_pairs[k].worker
              /\ an_pairs[k].worker \in Referenced
              /\ an_pairs[k].inferences = an_inferences[an_pairs[k].worker]
        /\ \A c \in an_calls :
              /\ an_grid[c.entry] \in Referenced
              /\ c.inferences = an_inferences[an_grid[c.entry]]
        /\ \A i \in DOMAIN an_grid : an_grid[i] \notin Referenced =>
              /\ \A k \in DOMAIN an_pairs : an_pairs[k].entry # i
              /\ \A c \in an_calls : c.entry # i

\* C8 witness: grid and references differ in size and order (the grid's first
\* entry is not the first referenced worker, one entry has no reference) and
\* a call was issued.
C8_Witness ==
    /\ an_pc = "returned"
    /\ an_calls # {}
    /\ Len(an_grid) >= 2
    /\ an_grid[1] \notin Referenced
    /\ \E c \in an_calls : c.entry > 1

\* the grid holds no two entries of the same participant
DistinctGrid == \A i, j \in DOMAIN an_grid : an_grid[i] = an_grid[j] => i = j

\* what the aggregate must be whatever the completion order: for every
\* referenced participant of the grid, the outcome of that participant's entry
ExpectedAggregate ==
    [w \in Referenced \cap GridIds |->
        LET i == CHOOSE j \in DOMAIN an_grid : an_grid[j] = w
        IN IF an_inferences[w] = << >>
             THEN [m \in an_metas |-> {}]
             ELSE [m \in an_metas |-> [statistics |-> <<"stats_of_entry", i>>]]]

\* C9: Analyser.infer returns only after every issued participant call has
\* completed, and for grids with distinct participant ids the returned
\* aggregate is the same for every completion order of the concurrent calls.
C9_GatherBarrier ==
    an_pc = "returned" =>
        /\ \A k \in DOMAIN an_tasks : an_tasks[k] = "collected"
        /\ (DistinctGrid => all_statistics = ExpectedAggregate)

\* C9 witness: two calls to two distinct participants were in flight together
\* and infer returned.
C9_Witness ==
    /\ an_pc = "returned"
    /\ DistinctGrid
    /\ Cardinality(an_calls) >= 2

(***************************************************************************)
(* Claims about the tracking bridge                                        *)
(***************************************************************************)

\* C5: with both a local and a remote tracking URI configured, once log() has
\* ended (returned or raised) the ensure-experiment / ensure-run / log-losses
\* / log-performance / log-artifacts sequence has been attempted at both
\* destinations: a failure at one does not keep the other from being tried.
C5_BothDestinationsAttempted ==
    (remote_uri # None /\ lg_pc \in {"done", "raised"}) =>
        \A u \in {LocalUri, remote_uri} : <<u, "experiment">> \in lg_attempts

(***************************************************************************)
(* Claims about the hyperparameter trial                                   *)
(***************************************************************************)

Registered == { registrations[i] : i \in DOMAIN registrations }

MissingRecords == Registered \ DOMAIN validation_records

RECURSIVE ClampedTotal(_)
ClampedTotal(ms) ==
    IF ms = << >> THEN 0
    ELSE (IF Head(ms) < 0 THEN 0 ELSE Head(ms)) + ClampedTotal(Tail(ms))

ArchivedMeasurements(p, m) == validation_records[p].evaluate.statistics[m]

RECURSIVE LenProduct(_, _)
LenProduct(S, m) ==
    IF S = {} THEN 1
    ELSE LET p == CHOOSE x \in S : TRUE
         IN Len(ArchivedMeasurements(p, m)) * LenProduct(S \ {p}, m)

\* sum over the participants p of S of ClampedTotal(p) / Len(p), as a
\* numerator over the common denominator LenProduct(All, m)
RECURSIVE MeansNumerator(_, _, _)
MeansNumerator(S, All, m) ==
    IF S = {} THEN 0
    ELSE LET p == CHOOSE x \in S : TRUE
         IN ClampedTotal(ArchivedMeasurements(p, m)) * LenProduct(All \ {p}, m)
                + MeansNumerator(S \ {p}, All, m)

\* C12: the metric a trial reports equals the mean over the registered
\* participants, each contributing exactly once, of that participant's mean
\* of its measurements with every negative value replaced by zero.
C12_ReportIsMeanOfClampedMeans ==
    (tn_pc = "reported" /\ Registered # {}) =>
        /\ DOMAIN tn_reports[1] = SUPPORTED_METRICS
        /\ \A m \in SUPPORTED_METRICS :
              /\ Len(grouped_statistics[m]) = Cardinality(Registered)
              /\ tn_reports[1][m][2] > 0
              /\ tn_reports[1][m][1] * Cardinality(Registered) * LenProduct(Registered, m)
                    = tn_reports[1][m][2] * MeansNumerator(Registered, Registered, m)

\* C12 witness: a report over all participants where some participant
\* archived a negative measurement and another one did not.
C12_Witness ==
    /\ tn_pc = "reported"
    /\ Len(registrations) = NumParticipants
    /\ \E p \in Registered : \E i \in DOMAIN ArchivedMeasurements(p, "accuracy") :
            ArchivedMeasurements(p, "accuracy")[i] < 0
    /\ \E p \in Registered : \A i \in DOMAIN ArchivedMeasurements(p, "accuracy") :
            ArchivedMeasurements(p, "accuracy")[i] > 0

(***************************************************************************)
(* Claims about the MLFlogger mappings                                     *)
(***************************************************************************)

ExperimentCalls == { i \in DOMAIN mp_log : mp_log[i].op = "experiment" }

RunCalls == { i \in DOMAIN mp_log : mp_log[i].op = "run" }

\* C13: two calls of initialise_mlflow_experiment with the same hierarchy key
\* and the same URI return the same tracking id, and the tracking-service
\* experiment and the mapping are created exactly once.
C13_ExperimentInitialisedOnce ==
    /\ \A i, j \in ExperimentCalls :
          mp_log[i].uri = mp_log[j].uri =>
              /\ ~mp_log[i].raised /\ ~mp_log[j].raised
              /\ mp_log[i].returned.mlflow_id = mp_log[j].returned.mlflow_id
              /\ mp_log[i].returned.mlflow_id # 0
    /\ ExperimentCalls # {} =>
          /\ mp_created = 1
          /\ mp_mapped["experiment"] = 1
          /\ Cardinality(UNION { srv_expts[u] : u \in URIs }) = 1

\* C13 witness: the experiment was initialised twice in a row at the same URI.
C13_Witness ==
    \E i \in ExperimentCalls :
        /\ i + 1 \in ExperimentCalls
        /\ mp_log[i].uri = mp_log[i + 1].uri
        /\ Absent(mp_log[i].before["experiment"])

C15_RunNeedsExperimentMapping ==
    /\ \A i \in RunCalls :
          Absent(mp_log[i].before["experiment"]) =>
              /\ mp_log[i].raised
              /\ mp_log[i].after = mp_log[i].before
    /\ Absent(mlf_records["experiment"]) =>
          /\ Absent(mlf_records["run"])
          /\ mp_started = 0
          /\ mp_mapped = [kind \in {"experiment", "run"} |-> 0]
          /\ mp_created = 0
          /\ \A u \in URIs : srv_runs[u] = {} /\ srv_expts[u] = {}

\* C15 witness: the run was initialised twice before its experiment.
C15_Witness ==
    /\ Len(mp_log) >= 2
    /\ {1, 2} \subseteq RunCalls
    /\ mp_log[2].raised
    /\ Absent(mlf_records["experiment"])

(***************************************************************************)
(* Further claims about the triggers                                       *)
(***************************************************************************)

\* C16: in cluster mode, when the collaboration declares no queue endpoint,
\* an alignment, validation or prediction trigger fails with the
\* configuration error (403) and has published no message, opened no queue
\* connection and executed no job inline.
C16_NoQueueNoDispatch ==
    (is_cluster /\ ~has_mq /\ rq_pc # "idle") =>
        /\ rq_pc = "done"
        /\ response = 403
        /\ published = << >>
        /\ connection = "none"
        /\ producers = 0
        /\ executed = << >>
        /\ archived = << >>

\* C16 witness: a prediction trigger with two combinations was answered in
\* cluster mode without a declared queue.
C16_Witness ==
    /\ is_cluster /\ ~has_mq
    /\ rq_handler = "predictions"
    /\ Len(rq_combos) = MaxCombos
    /\ rq_pc = "done"

Succeeded == rq_pc = "done" /\ response = SuccessCode(rq_handler)

\* C17: a successful cluster-mode dispatch has connected, published exactly
\* one message per enumerated combination, each with the key and the
\* parameters of its combination, and disconnected after the last one; it
\* returns an empty result and writes nothing to the archive.
C17_ClusterDispatchPublishesEachCombinationOnce ==
    is_cluster =>
        /\ (connection = "none" => published = << >>)
        /\ (connection = "closed" => Len(published) = Len(rq_combos))
        /\ Succeeded =>
              /\ connection = "closed"
              /\ Len(published) = Len(rq_combos)
              /\ \A i \in DOMAIN rq_combos :
                    published[i] = [process |-> ProcessOf(rq_handler),
                                    keys |-> rq_combos[i],
                                    parameters |-> <<"kwargs", rq_combos[i]>>]
              /\ rq_results = << >>
              /\ archived = << >>

\* C17 witness: a validation trigger with two combinations succeeded in
\* cluster mode.
C17_Witness ==
    /\ is_cluster
    /\ Succeeded
    /\ rq_handler = "validations"
    /\ Len(rq_combos) = MaxCombos

\* C18: in standalone mode the combinations of a request are processed one
\* at a time in enumeration order: the job of combination i+1 starts only
\* after the job and the archival of combination i.
C18_StandaloneOneAtATime ==
    ~is_cluster =>
        /\ Len(archived) <= Len(executed)
        /\ Len(executed) <= Len(archived) + 1
        /\ \A i \in DOMAIN executed : executed[i].keys = rq_combos[i]
        /\ \A i \in DOMAIN archived : archived[i] = rq_combos[i]
        /\ Succeeded => Len(archived) = Len(rq_combos) /\ rq_results = archived

\* C18 witness: the second job of a standalone prediction trigger has
\* started, the first combination being archived.
C18_Witness ==
    /\ ~is_cluster
    /\ rq_handler = "predictions"
    /\ Len(executed) = 2
    /\ Len(archived) = 1

(***************************************************************************)
(* Claims about the optimisation job and the optimisation triggers         *)
(***************************************************************************)

\* C19: execute_optimization_job publishes a 'train' message and then a
\* 'validate' message for the same combination key, in that order and
\* without waiting for the training to finish; the validate message is
\* scoped to exactly the participants of the selected grid; when the train
\* publication fails no validate message is published.
C19_TrainThenValidate ==
    /\ Len(oj_published) <= 2
    /\ oj_published # << >> =>
          oj_published[1].process = "train" /\ oj_published[1].keys = oj_keys
    /\ Len(oj_published) = 2 =>
          /\ oj_published[2].process = "validate"
          /\ oj_published[2].keys = oj_keys
          /\ oj_published[2].participants = oj_grid
    /\ oj_failed \in {"connect", "train"} => oj_published = << >>
    /\ oj_pc = "validate" => ENABLED PublishValidate
    /\ oj_pc = "returned" => Len(oj_published) = 2

\* C19 witness: both messages were published for a grid of several
\* participants and the job returned while the training was still running.
C19_Witness ==
    /\ oj_pc = "returned"
    /\ Len(oj_published) = 2
    /\ Len(oj_grid) >= 2
    /\ ~oj_trained

\* C20: outside cluster mode every optimisation request, GET or POST, and
\* every trial callback is rejected; no Trial run record is created, no
\* queue message is published and no search is started.
C20_OptimisationOnlyInClusterMode ==
    ~is_cluster =>
        /\ \A i \in DOMAIN op_log : op_log[i].status = 403
        /\ op_pc = "idle"
        /\ searches = 0
        /\ tn_pc \in {"idle", "rejected"}
        /\ optim_runs = 0
        /\ optim_published = << >>
        /\ published = << >>
        /\ tn_reports = << >>

\* C20 witness: outside cluster mode a GET, a POST and a trial callback were
\* all turned down.
C20_Witness ==
    /\ ~is_cluster
    /\ tn_pc = "rejected"
    /\ \E i, j \in DOMAIN op_log : op_log[i].method = "GET" /\ op_log[j].method = "POST"

(***************************************************************************)
(* Claims about the archive                                                *)
(***************************************************************************)

DocOf(table, participant, filters) ==
    table[CHOOSE i \in Holds(table, participant, filters) : TRUE]

\* C21: after any sequence of archive operations the table holds at most one
\* record per (participant, combination key); archiving under a key that
\* already has a record overwrites it in place (same record identity, record
\* count unchanged) and the stored value is the last one written.
C21_ArchiveOverwritesInPlace ==
    /\ \A p \in ArchParticipants, f \in ArchFilters :
          Cardinality(Holds(ar_table, p, f)) <= 1
    /\ \A n \in DOMAIN ar_log :
          LET call == ar_log[n]
              written == { call.outputs[k][1] : k \in DOMAIN call.outputs }
              fresh == { p \in written : Holds(call.before, p, call.filters) = {} }
          IN /\ Len(call.after) = Len(call.before) + Cardinality(fresh)
             /\ \A k \in DOMAIN call.outputs :
                   LET p == call.outputs[k][1]
                   IN /\ Cardinality(Holds(call.after, p, call.filters)) = 1
                      /\ DocOf(call.after, p, call.filters).details = call.outputs[k][2]
                      /\ p \notin fresh =>
                            DocOf(call.after, p, call.filters).doc_id
                                = DocOf(call.before, p, call.filters).doc_id
             /\ \A i \in DOMAIN call.before :
                   (call.before[i].participant \notin written
                        \/ call.before[i].filters # call.filters)
                      => call.after[i] = call.before[i]

\* C21 witness: statistics archived for a participant and key were archived
\* again with another value.
C21_Witness ==
    \E n \in DOMAIN ar_log : \E k \in DOMAIN ar_log[n].outputs :
        LET call == ar_log[n]
            p == call.outputs[k][1]
        IN /\ Holds(call.before, p, call.filters) # {}
           /\ DocOf(call.before, p, call.filters).details # call.outputs[k][2]
           /\ Len(call.outputs) = 2


(***************************************************************************)
(* Claims about the alignment trigger                                      *)
(***************************************************************************)

\* a step in which an alignment operation runs with auto_align false: a
\* trigger call, or the alignment at the start of a prediction job
AlignsWithoutAutoAlign ==
    \/ /\ Len(al_log') = Len(al_log) + 1
       /\ ~al_log'[Len(al_log')].auto_align
    \/ /\ pj_pc = "idle"
       /\ pj_pc' # "idle"
       /\ ~pj_auto_align'

\* C22: no alignment operation run with auto_align false (alignment trigger
\* or prediction job) rewrites the declared input/output layer sizes of an
\* experiment.
C22_NoRewriteWithoutAutoAlign ==
    [][AlignsWithoutAutoAlign => expt_records' = expt_records]_vars

(***************************************************************************)
(* Claims about the resources of the trials                                *)
(***************************************************************************)

\* C24: the CPU claim of each trial is the configured core budget divided by
\* the requested trial concurrency, so the claims of the trials running at the
\* same time never add up to more than the budget; the GPU claim is zero.
C24_ClaimIsBudgetOverConcurrency ==
    rs_pc # "idle" =>
        /\ rs_resources.cpu.num * rs_concurrency = cores_used * rs_resources.cpu.den
        /\ rs_running * rs_resources.cpu.num <= cores_used * rs_resources.cpu.den
        /\ rs_resources.gpu = 0

(***************************************************************************)
(* Claims about the fatal conditions                                       *)
(***************************************************************************)

\* the message names every identifier of the key
Carries(message, key) == \A i \in DOMAIN key : key[i] \in message.ids

\* C23: every fatal condition surfaced to the caller (missing queue
\* configuration, feature drift, tracking ordering violation) carries the
\* combination key it failed for.
C23_FatalConditionNamesItsKey ==
    \A i \in DOMAIN surfaced : Carries(surfaced[i].message, surfaced[i].key)

(***************************************************************************)
(* Claims about log_losses                                                 *)
(***************************************************************************)

\* the points a model's own loss history gives: one per round, the round as step
OwnPoints(model) ==
    IF model.m_type = "global"
      THEN UNION { Points(<<"global", meta, "loss">>, model.loss_history[meta]) :
                   meta \in DOMAIN model.loss_history }
      ELSE Points(<<model.origin, "local", "loss">>, model.loss_history)

KeysOf(model) == { pt.key : pt \in OwnPoints(model) }

\* C26: for a run with archived model metadata, log_losses logs for each
\* archived model (the global one and every local one) that model's own loss
\* history: one point per round index, with the round index as the step.
C26_EachModelLogsItsOwnHistory ==
    ll_pc = "done" =>
        \A i \in DOMAIN ll_models :
            { pt \in ll_metrics : pt.key \in KeysOf(ll_models[i]) } = OwnPoints(ll_models[i])

(***************************************************************************)
(* Claims about the record stores                                          *)
(***************************************************************************)

\* C25: deleting a record removes it and every record downstream of it: a
\* run's model, validation and prediction records, a registration's tag and
\* alignment records.
C25_DeleteCascades ==
    st_deleted # NoDelete => st_deleted.after = {}

C25_Witness ==
    /\ st_deleted # NoDelete
    /\ \/ st_deleted.kind = "run" /\ st_deleted.before = {2, 3, 4}
       \/ st_deleted.kind = "registration" /\ st_deleted.before = {2, 3}

(***************************************************************************)
(* Claims about the queue connections of a dispatch                        *)
(***************************************************************************)

\* C27: when a cluster-mode dispatch has ended, by returning or by raising
\* (a failed connect of the second producer, a failed publish in the middle of
\* a batch), no queue connection it opened is still open.
C27_NoConnectionLeftOpen ==
    /\ rq_pc = "done" => connection # "open"
    /\ oj_pc \in {"returned", "raised"} => \A pr \in Producers : oj_conns[pr] # "open"

(***************************************************************************)
(* Claims about the consumers of an optimize cycle                         *)
(***************************************************************************)

\* C28: in an optimize cycle the validate job of a combination key is never
\* executed by a consumer before the train job of the same key has completed,
\* however the consumers of the train queue and of the evaluate queue
\* interleave.
C28_ValidateAfterTrainCompleted ==
    oj_validated => oj_trained

(***************************************************************************)
(* Claims about the identifiers used at a tracking destination             *)
(***************************************************************************)

\* the logging steps that continue a run with the mapped identifiers:
\* log_model_performance and log_artifacts always, log_losses when the run
\* has archived models
ContinuesRun(step) ==
    \/ step \in {"performance", "artifacts"}
    \/ step = "losses" /\ has_models

\* C29: whenever metrics or artifacts are logged to a tracking destination,
\* the experiment id and the run id used for it were created at that same
\* destination; with a local and a remote URI configured this holds at both.
C29_IdsCreatedAtTheDestination ==
    \A a \in lg_attempts :
        ContinuesRun(a[2]) =>
            /\ mlf_records["experiment"].mlflow_id \in srv_expts[a[1]]
            /\ mlf_records["run"].mlflow_id \in srv_runs[a[1]]

(***************************************************************************)
(* Claims about the missing-queue answer                                   *)
(***************************************************************************)

\* C30: the answer 'SynCluster mode attempted, but no queue was declared'
\* (403) is given only in cluster mode for a collaboration without queue
\* configuration; a failure raised inside a job run in standalone mode is
\* never answered with it.
C30_NoQueueAnswerOnlyWithoutQueue ==
    (rq_pc = "done" /\ response = 403) => (is_cluster /\ ~has_mq)
=============================================================================
